---- MODULE Spec2Model ----
(***************************************************************************)
(* Model of the a4e agent-project tool server: the project store (tool     *)
(* files, view folders, skill folders and the three aggregate              *)
(* schemas.json documents) and the lifecycle operations that mutate it.    *)
(*                                                                         *)
(* Every operation is a function from the project store and its arguments  *)
(* to a new store and a result record; the actions apply these functions   *)
(* to the variables.  Operations that call other operations                *)
(* (add_tool -> generate_schemas, update_skill -> create_skill) compose    *)
(* the functions, so an action is always the whole handler.                *)
(***************************************************************************)
EXTENDS Integers, Sequences, FiniteSets, TLC

VARIABLES
    toolFiles,   \* tools/<name>.py      : name -> rendered content
    toolsAgg,    \* tools/schemas.json   : document
    globOrder,   \* order in which tools_dir.glob("*.py") yields the names
    viewDirs,    \* views/<id>/          : id -> [tsx, schema]
    viewsAgg,    \* views/schemas.json   : document
    skillDirs,   \* skills/<id>/SKILL.md : id -> rendered content
    skillsAgg,   \* skills/schemas.json  : document
    requiredFiles, \* which of agent.py, metadata.json, prompts/agent.md exist
    subject,     \* the value a parsing or checking function is applied to
    last         \* result record of the most recent operation

vars == <<toolFiles, toolsAgg, globOrder, viewDirs, viewsAgg, skillDirs, skillsAgg, requiredFiles, subject, last>>

store == [toolFiles |-> toolFiles, toolsAgg |-> toolsAgg, globOrder |-> globOrder,
          viewDirs |-> viewDirs, viewsAgg |-> viewsAgg,
          skillDirs |-> skillDirs, skillsAgg |-> skillsAgg]

-----------------------------------------------------------------------------
(* Bounds and input domains *)

MaxDescs == 2

DescText == <<"d1", "d2", "d3", "d4">>

Descs == {DescText[i] : i \in 1..MaxDescs}

ToolNames == {"calc_1", "t2"}

ViewNames == {"welcome", "results"}

SkillNames == {"show_welcome", "s2"}

\* identifiers a caller may pass: the names above, one with a character that
\* is not alphanumeric-plus-underscore (tried on the adds, which check the
\* identifier), and path spellings of the sentinels (tried on the removes)
BadIds == {"bad-id"}

ToolIdInputs == ToolNames \cup BadIds

ViewIdInputs == ViewNames \cup BadIds \cup {"welcome/"}

SkillIdInputs == SkillNames \cup BadIds \cup {"show_welcome/"}

\* the characters of every identifier of the model
IdChars ==
    [id \in ToolIdInputs \cup ViewIdInputs \cup SkillIdInputs |->
        CASE id = "calc_1"        -> <<"c", "a", "l", "c", "_", "1">>
          [] id = "t2"            -> <<"t", "2">>
          [] id = "bad-id"        -> <<"b", "a", "d", "-", "i", "d">>
          [] id = "welcome"       -> <<"w", "e", "l", "c", "o", "m", "e">>
          [] id = "welcome/"      -> <<"w", "e", "l", "c", "o", "m", "e", "/">>
          [] id = "results"       -> <<"r", "e", "s", "u", "l", "t", "s">>
          [] id = "show_welcome"  -> <<"s", "h", "o", "w", "_", "w", "e", "l", "c", "o", "m", "e">>
          [] id = "show_welcome/" -> <<"s", "h", "o", "w", "_", "w", "e", "l", "c", "o", "m", "e", "/">>
          [] id = "s2"            -> <<"s", "2">>]

AlnumChars == {"a", "b", "c", "d", "e", "h", "i", "l", "m", "o", "r", "s", "t", "u", "w", "1", "2"}

IsIdentifier_AnyChars(id) == Len(IdChars[id]) > 0

\* str.replace("_", "").isalnum(): non-empty and alphanumeric once the
\* underscores are removed
IsIdentifier(id) ==
    LET cs == SelectSeq(IdChars[id], LAMBDA c : c # "_")
    IN  /\ Len(cs) > 0
        /\ \A i \in 1..Len(cs) : cs[i] \in AlnumChars

\* pathlib: (dir / id) drops trailing separators, so "welcome/" names the
\* entry "welcome" of the directory
RECURSIVE StripSlashes(_)
StripSlashes(cs) ==
    IF Len(cs) > 0 /\ cs[Len(cs)] = "/"
        THEN StripSlashes(SubSeq(cs, 1, Len(cs) - 1))
        ELSE cs

PathName(id) ==
    LET cs == StripSlashes(IdChars[id])
    IN  CHOOSE n \in DOMAIN IdChars : IdChars[n] = cs

-----------------------------------------------------------------------------
(* Documents *)

\* a JSON document on disk: absent, unparseable text, or a JSON value
Doc(shape, items, entries) == [shape |-> shape, items |-> items, entries |-> entries]

Missing == Doc("missing", <<>>, <<>>)

Invalid == Doc("invalid", <<>>, <<>>)

JsonNull == Doc("null", <<>>, <<>>)

JsonNumber == Doc("number", <<>>, <<>>)

JsonList(items) == Doc("list", items, <<>>)

JsonDict(entries) == Doc("dict", <<>>, entries)

Exists(doc) == doc.shape # "missing"

\* del d[k]
DelKey(entries, k) == [x \in DOMAIN entries \ {k} |-> entries[x]]

\* d[k] = v
PutKey(entries, k, v) == [x \in DOMAIN entries \cup {k} |-> IF x = k THEN v ELSE entries[x]]

\* result record of an operation
Result(op, id, success, error) ==
    [op |-> op, id |-> id, success |-> success, error |-> error,
     force |-> FALSE, tools_status |-> "none", views_status |-> "none",
     repeat |-> FALSE, strict |-> FALSE, missing |-> <<>>, details |-> <<>>,
     warnings |-> <<>>, value |-> <<>>]

Ok(op, id) == Result(op, id, TRUE, "none")

Fail(op, id, error) == Result(op, id, FALSE, error)

-----------------------------------------------------------------------------
(* Tool files *)

\* parameter names in str order
ParamNameOrder == <<"a", "b">>

\* parameters dicts a caller passes: name -> [type, required]; the simple
\* form {'a': 'number'} is the entry with required = FALSE, the default of
\* param_info.get("required", False)
NoParams == <<>>

MixedParams == [n \in {"a", "b"} |->
                  IF n = "a" THEN [type |-> "number", required |-> FALSE]
                             ELSE [type |-> "string", required |-> TRUE]]

ParamTables == {NoParams, MixedParams}

\* mutant: "integer" is annotated as float
TypeMapping_IntegerAsFloat(raw_type) ==
    CASE raw_type = "string"  -> "str"
      [] raw_type = "number"  -> "float"
      [] raw_type = "integer" -> "float"
      [] raw_type = "boolean" -> "bool"
      [] raw_type = "array"   -> "List"
      [] raw_type = "object"  -> "dict"
      [] OTHER                -> raw_type

TypeMapping(raw_type) ==
    CASE raw_type = "string"  -> "str"
      [] raw_type = "number"  -> "float"
      [] raw_type = "integer" -> "int"
      [] raw_type = "boolean" -> "bool"
      [] raw_type = "array"   -> "List"
      [] raw_type = "object"  -> "dict"
      [] OTHER                -> raw_type

\* the loop that maps each parameter to its Python annotation
MapParams(parameters) ==
    [n \in DOMAIN parameters |->
        LET py_type     == TypeMapping(parameters[n].type)
            is_required == parameters[n].required
        IN  [type |-> IF is_required THEN py_type
                      ELSE "Optional[" \o py_type \o "] = None",
             is_required |-> is_required]]

NameIndex(n) == CHOOSE i \in 1..Len(ParamNameOrder) : ParamNameOrder[i] = n

\* mutant: the sort key is the name alone
SortKeyLess_ByName(mapped, x, y) == NameIndex(x) < NameIndex(y)

\* sort key (not is_required, name)
SortKeyLess(mapped, x, y) ==
    \/ mapped[x].is_required /\ ~mapped[y].is_required
    \/ mapped[x].is_required = mapped[y].is_required /\ NameIndex(x) < NameIndex(y)

RECURSIVE SortedFrom(_, _)
SortedFrom(mapped, names) ==
    IF names = {} THEN <<>>
    ELSE LET m == CHOOSE x \in names : \A y \in names \ {x} : SortKeyLess(mapped, x, y)
         IN  <<[name |-> m, type |-> mapped[m].type, is_required |-> mapped[m].is_required]>>
                 \o SortedFrom(mapped, names \ {m})

\* sorted_params: required first, then optional, each group by name
SortedParams(parameters) == SortedFrom(MapParams(parameters), DOMAIN parameters)

\* template.render(tool_name, description, parameters): the content of the
\* tool file is determined by the values handed to the template
RenderTool(description, parameters) ==
    [description |-> description, parameters |-> SortedParams(parameters)]

\* re.search(r'"""([^"]+)"""', current_content): the description the
\* rendered file carries in its docstring
DescriptionFromFile(content) == content.description

\* generate_schema(func) of the tool function of a rendered file
ToolSchema(name, content) ==
    [function |-> [name |-> name, description |-> content.description]]

-----------------------------------------------------------------------------
(* View folders *)

PropNames == {"title"}

\* props dicts a caller passes: name -> type string (simple form) or
\* name -> {type, description, required} (detailed form)
SimpleProp(type) == [detailed |-> FALSE, type |-> type, description |-> "", required |-> TRUE]

DetailedProp(type, description, required) ==
    [detailed |-> TRUE, type |-> type, description |-> description, required |-> required]

NoProps == <<>>

WelcomeProps == [n \in {"title"} |-> DetailedProp("string", "Welcome title", TRUE)]

PropTables == {NoProps,
               [n \in {"title"} |-> SimpleProp("string")],
               [n \in {"title"} |-> DetailedProp("number", "d1", FALSE)]}

\* template.render(view_name, description, props) of view.tsx.j2
RenderView(description, props) == [description |-> description, props |-> props]

\* the props interface block of a rendered view.tsx: one line
\* "name: type;" per prop
TsxInterface(tsx) ==
    [n \in DOMAIN tsx.props |-> [optional |-> FALSE, ts_type |-> tsx.props[n].type]]

\* "kw" in ts_type
TsContains(ts_type, kw) ==
    CASE ts_type = "number"   -> kw = "number"
      [] ts_type = "boolean"  -> kw = "boolean"
      [] ts_type = "string[]" -> kw = "[]"
      [] OTHER                -> FALSE

JsonTypeOfTs(ts_type) ==
    IF TsContains(ts_type, "number") THEN "number"
    ELSE IF TsContains(ts_type, "boolean") THEN "boolean"
    ELSE IF TsContains(ts_type, "Array") \/ TsContains(ts_type, "[]") THEN "array"
    ELSE "string"

ViewSchemaDoc(name, description, properties, required) ==
    [name |-> name, description |-> description,
     props |-> [type |-> "object", properties |-> properties, required |-> required]]

\* view.schema.json as create_view and update_view write it from props
SchemaFromProps(view_id, description, props) ==
    ViewSchemaDoc(view_id, description,
        [n \in DOMAIN props |->
            IF props[n].detailed
                THEN [type |-> props[n].type, description |-> props[n].description]
                ELSE [type |-> props[n].type, description |-> "The " \o n \o " prop"]],
        {n \in DOMAIN props : (~props[n].detailed) \/ props[n].required})

\* properties generate_schemas extracts from the interface block
PropertiesFromTsx(tsx) ==
    LET lines == TsxInterface(tsx)
    IN  [n \in DOMAIN lines |->
            [type |-> JsonTypeOfTs(lines[n].ts_type),
             description |-> "From " \o lines[n].ts_type]]

RequiredFromTsx(tsx) ==
    LET lines == TsxInterface(tsx)
    IN  {n \in DOMAIN lines : ~lines[n].optional}

\* view.schema.json as generate_schemas writes it from view.tsx
SchemaFromTsx(name, tsx) ==
    ViewSchemaDoc(name, "View for " \o name, PropertiesFromTsx(tsx), RequiredFromTsx(tsx))

\* the entry of views/schemas.json for one view
AggregatedView(name, tsx) ==
    [id |-> name, description |-> "View for " \o name, params |-> PropertiesFromTsx(tsx)]

-----------------------------------------------------------------------------
(* generate_schemas *)

\* mutant: the schemas already in the aggregate are kept and the scan appends
InitialToolSchemas_Keep(fs) == IF fs.toolsAgg.shape = "list" THEN fs.toolsAgg.items ELSE <<>>

\* tool_schemas = []
InitialToolSchemas(fs) == <<>>

\* the loop over tools_dir.glob("*.py"): one schema per tool file, in the
\* order the directory yields the files
RECURSIVE ScanTools(_, _)
ScanTools(files, order) ==
    IF order = <<>> THEN <<>>
    ELSE (IF Head(order) \in DOMAIN files
             THEN <<ToolSchema(Head(order), files[Head(order)])>>
             ELSE <<>>) \o ScanTools(files, Tail(order))

\* mutant: tools are regenerated whenever either aggregate is missing
RegenTools_EitherMissing(fs, force) ==
    force \/ ~Exists(fs.toolsAgg) \/ ~Exists(fs.viewsAgg)

\* "if tools_dir.exists() and (force or not (tools_schema_file and ...exists()))"
RegenTools(fs, force) == force \/ ~Exists(fs.toolsAgg)

\* "if views_dir.exists() and (force or not (views_schema_file and ...exists()))"
RegenViews(fs, force) == force \/ ~Exists(fs.viewsAgg)

\* "if not force: ... if both exist: return results"
SkipsAll(fs, force) == ~force /\ Exists(fs.toolsAgg) /\ Exists(fs.viewsAgg)

\* json.dumps(tool_schemas): the aggregate is the list of the schemas
GenerateToolSchemas(fs) ==
    [fs EXCEPT !.toolsAgg = JsonList(InitialToolSchemas(fs) \o ScanTools(fs.toolFiles, fs.globOrder))]

\* per view: view.schema.json rewritten from view.tsx, and the aggregate
\* rebuilt from an empty dict
GenerateViewSchemas(fs) ==
    [fs EXCEPT
        !.viewDirs = [v \in DOMAIN fs.viewDirs |->
                        [tsx |-> fs.viewDirs[v].tsx,
                         schema |-> SchemaFromTsx(v, fs.viewDirs[v].tsx)]],
        !.viewsAgg = JsonDict([v \in DOMAIN fs.viewDirs |->
                                 AggregatedView(v, fs.viewDirs[v].tsx)])]

GenerateSchemas(fs, force) ==
    LET res == [Ok("generate_schemas", "") EXCEPT
                    !.force = force, !.tools_status = "skipped", !.views_status = "skipped"]
    IN  IF SkipsAll(fs, force) THEN [fs |-> fs, res |-> res]
        ELSE LET doTools == RegenTools(fs, force)
                 doViews == RegenViews(fs, force)
                 fs1 == IF doTools THEN GenerateToolSchemas(fs) ELSE fs
                 fs2 == IF doViews THEN GenerateViewSchemas(fs1) ELSE fs1
             IN  [fs  |-> fs2,
                  res |-> [res EXCEPT
                             !.tools_status = IF doTools THEN "success" ELSE "skipped",
                             !.views_status = IF doViews THEN "success" ELSE "skipped"]]

-----------------------------------------------------------------------------
(* Tools: add, update, remove, list *)

AddTool(fs, tool_name, description, parameters) ==
    IF ~IsIdentifier(tool_name)
        THEN [fs |-> fs, res |-> Fail("add_tool", tool_name, "invalid_id")]
    ELSE IF tool_name \in DOMAIN fs.toolFiles
        THEN [fs |-> fs, res |-> Fail("add_tool", tool_name, "exists")]
    ELSE LET written == [fs EXCEPT !.toolFiles =
                            PutKey(fs.toolFiles, tool_name, RenderTool(description, parameters))]
         IN  [fs  |-> GenerateSchemas(written, FALSE).fs,
              res |-> Ok("add_tool", tool_name)]

\* description and parameters are sets of at most one value: {} is None
UpdateTool(fs, tool_name, description, parameters) ==
    LET fail(error) == [fs |-> fs, res |-> Fail("update_tool", tool_name, error)]
    IN  IF tool_name \notin DOMAIN fs.toolFiles THEN fail("not_found")
        ELSE IF description = {} /\ parameters = {} THEN fail("nothing")
        ELSE IF parameters = {} THEN fail("parameters_required")
        ELSE LET d == IF description = {}
                          THEN DescriptionFromFile(fs.toolFiles[tool_name])
                          ELSE CHOOSE x \in description : TRUE
                 p == CHOOSE x \in parameters : TRUE
                 written == [fs EXCEPT !.toolFiles = PutKey(fs.toolFiles, tool_name, RenderTool(d, p))]
             IN  [fs  |-> GenerateSchemas(written, TRUE).fs,
                  res |-> Ok("update_tool", tool_name)]

\* the aggregate update of remove_tool, remove_view and remove_skill:
\*   schemas = json.loads(...); if id in schemas: del schemas[id]; write
\* inside "except (json.JSONDecodeError, KeyError): pass".  raised says that
\* an exception of another class left the block
DropAggregateEntry(doc, id) ==
    CASE doc.shape = "missing" -> [doc |-> doc, raised |-> FALSE]
      [] doc.shape = "invalid" -> [doc |-> doc, raised |-> FALSE]
      [] doc.shape = "dict"    ->
            [doc |-> IF id \in DOMAIN doc.entries
                        THEN JsonDict(DelKey(doc.entries, id)) ELSE doc,
             raised |-> FALSE]
      [] doc.shape = "list"    -> [doc |-> doc, raised |-> FALSE]
      [] OTHER                 -> [doc |-> doc, raised |-> TRUE]

RemoveTool(fs, tool_name) ==
    IF tool_name \notin DOMAIN fs.toolFiles
        THEN [fs |-> fs, res |-> Fail("remove_tool", tool_name, "not_found")]
    ELSE LET unlinked == [fs EXCEPT !.toolFiles = DelKey(fs.toolFiles, tool_name)]
             drop     == DropAggregateEntry(fs.toolsAgg, tool_name)
         IN  IF drop.raised
                 THEN [fs |-> unlinked, res |-> Fail("remove_tool", tool_name, "exception")]
                 ELSE [fs  |-> [unlinked EXCEPT !.toolsAgg = drop.doc],
                       res |-> Ok("remove_tool", tool_name)]

RECURSIVE SortedIds(_, _)
SortedIds(ids, order) ==
    IF order = <<>> THEN <<>>
    ELSE (IF Head(order) \in ids THEN <<Head(order)>> ELSE <<>>) \o SortedIds(ids, Tail(order))

\* the names of the model in str order
NameOrder == <<"calc_1", "results", "s2", "show_welcome", "t2", "welcome">>

\* sorted(tools) over the *.py files of tools/
ListTools(fs) == SortedIds(DOMAIN fs.toolFiles, NameOrder)

-----------------------------------------------------------------------------
(* Views: add, update, remove, list *)

CreateView(fs, op, view_id, description, props) ==
    IF PathName(view_id) \in DOMAIN fs.viewDirs
        THEN [fs |-> fs, res |-> Fail(op, view_id, "exists")]
        ELSE [fs  |-> [fs EXCEPT !.viewDirs = PutKey(fs.viewDirs, PathName(view_id),
                            [tsx    |-> RenderView(description, props),
                             schema |-> SchemaFromProps(view_id, description, props)])],
              res |-> Ok(op, view_id)]

AddView(fs, view_id, description, props) ==
    IF ~IsIdentifier(view_id)
        THEN [fs |-> fs, res |-> Fail("add_view", view_id, "invalid_id")]
    ELSE LET created == CreateView(fs, "add_view", view_id, description, props)
         IN  IF created.res.success
                 THEN [fs |-> GenerateSchemas(created.fs, FALSE).fs, res |-> created.res]
                 ELSE created

\* props as update_view rebuilds them from view.schema.json: the type only
PropsFromSchema(schema) ==
    [n \in DOMAIN schema.props.properties |-> SimpleProp(schema.props.properties[n].type)]

UpdateView(fs, view_id, description, props) ==
    LET dir == PathName(view_id)
        fail(error) == [fs |-> fs, res |-> Fail("update_view", view_id, error)]
    IN  IF dir \notin DOMAIN fs.viewDirs THEN fail("not_found")
        ELSE IF description = {} /\ props = {} THEN fail("nothing")
        ELSE LET current == fs.viewDirs[dir].schema
                 d == IF description = {} THEN current.description
                                          ELSE CHOOSE x \in description : TRUE
                 p == IF props = {} THEN PropsFromSchema(current)
                                    ELSE CHOOSE x \in props : TRUE
                 written == [fs EXCEPT !.viewDirs[dir] =
                                [tsx    |-> RenderView(d, p),
                                 schema |-> SchemaFromProps(view_id, d, p)]]
             IN  [fs  |-> GenerateSchemas(written, TRUE).fs,
                  res |-> Ok("update_view", view_id)]

\* mutant: the guard names the sentinel of the other kind
IsSentinelView_OtherKind(view_id) == view_id = "show_welcome"

\* "if view_id == "welcome": return error"
IsSentinelView(view_id) == view_id = "welcome"

RemoveView(fs, view_id) ==
    LET dir == PathName(view_id)
    IN  IF dir \notin DOMAIN fs.viewDirs
            THEN [fs |-> fs, res |-> Fail("remove_view", view_id, "not_found")]
        ELSE IF IsSentinelView(view_id)
            THEN [fs |-> fs, res |-> Fail("remove_view", view_id, "sentinel")]
        ELSE LET removed == [fs EXCEPT !.viewDirs = DelKey(fs.viewDirs, dir)]
                 drop    == DropAggregateEntry(fs.viewsAgg, view_id)
             IN  IF drop.raised
                     THEN [fs |-> removed, res |-> Fail("remove_view", view_id, "exception")]
                     ELSE [fs  |-> [removed EXCEPT !.viewsAgg = drop.doc],
                           res |-> Ok("remove_view", view_id)]

\* sorted names of the view folders that hold a view.tsx
ListViews(fs) == SortedIds(DOMAIN fs.viewDirs, NameOrder)

-----------------------------------------------------------------------------
(* Skills: add, update, remove *)

\* template.render(...) of skills/skill.md.j2
RenderSkill(skill_name, description, intent_triggers, internal_tools, output_view, requires_auth, view_props) ==
    [skill_name |-> skill_name, description |-> description,
     intent_triggers |-> intent_triggers, internal_tools |-> internal_tools,
     output_view |-> output_view, requires_auth |-> requires_auth,
     view_props |-> view_props]

SkillSchema(skill_id, name, description, intent_triggers, output_view, internal_tools, requires_auth) ==
    [id |-> skill_id, name |-> name, description |-> description,
     intent_triggers |-> intent_triggers, requires_auth |-> requires_auth,
     internal_tools |-> internal_tools, output |-> [view |-> output_view]]

\* _update_skills_schema: a missing or unparseable aggregate starts over
\* from an empty dict; schemas[skill_id] = {...} on a value that is not a
\* dict raises TypeError
UpdateSkillsSchema(doc, skill_id, entry) ==
    CASE doc.shape \in {"missing", "invalid"} ->
            [doc |-> JsonDict(PutKey(<<>>, skill_id, entry)), raised |-> FALSE]
      [] doc.shape = "dict" ->
            [doc |-> JsonDict(PutKey(doc.entries, skill_id, entry)), raised |-> FALSE]
      [] OTHER -> [doc |-> doc, raised |-> TRUE]

\* a text with a lone surrogate, which write_text cannot encode as UTF-8
Unencodable == "\\ud800"

\* (skill_dir / "SKILL.md").write_text(skill_md) raises UnicodeEncodeError
\* when the rendered text holds such a character
SkillFileWritable(name, description) == name # Unencodable /\ description # Unencodable

\* SKILL.md as the failed write_text leaves it: created and empty
TruncatedSkillFile == RenderSkill("", "", <<>>, <<>>, "", FALSE, <<>>)

\* internal_tools is a set of at most one list: {} is None
CreateSkill(fs, op, skill_id, name, description, intent_triggers, output_view, internal_tools, requires_auth, view_props) ==
    LET dir == PathName(skill_id)
        tools == IF internal_tools = {} THEN <<>> ELSE CHOOSE x \in internal_tools : TRUE
    IN  IF dir \in DOMAIN fs.skillDirs
            THEN [fs |-> fs, res |-> Fail(op, skill_id, "exists")]
        ELSE IF ~SkillFileWritable(name, description)
            THEN [fs  |-> [fs EXCEPT !.skillDirs = PutKey(fs.skillDirs, dir, TruncatedSkillFile)],
                  res |-> Fail(op, skill_id, "exception")]
        ELSE LET written == [fs EXCEPT !.skillDirs = PutKey(fs.skillDirs, dir,
                                RenderSkill(name, description, intent_triggers, tools,
                                            output_view, requires_auth, view_props))]
                 upd == UpdateSkillsSchema(fs.skillsAgg, skill_id,
                            SkillSchema(skill_id, name, description, intent_triggers,
                                        output_view, tools, requires_auth))
             IN  IF upd.raised
                     THEN [fs |-> written, res |-> Fail(op, skill_id, "exception")]
                     ELSE [fs  |-> [written EXCEPT !.skillsAgg = upd.doc],
                           res |-> Ok(op, skill_id)]

\* "if output_view and output_view != "NONE""
NamesView(output_view) == output_view # "" /\ output_view # "NONE"

\* schema.get("props", {}).get("properties", {}) of the view's schema
ViewPropsOf(fs, output_view) ==
    IF NamesView(output_view) /\ output_view \in DOMAIN fs.viewDirs
        THEN fs.viewDirs[output_view].schema.props.properties
        ELSE <<>>

AddSkill(fs, skill_id, in) ==
    IF ~IsIdentifier(skill_id)
        THEN [fs |-> fs, res |-> Fail("add_skill", skill_id, "invalid_id")]
    ELSE IF Len(in.intent_triggers) = 0
        THEN [fs |-> fs, res |-> Fail("add_skill", skill_id, "no_triggers")]
    ELSE IF NamesView(in.output_view) /\ in.output_view \notin DOMAIN fs.viewDirs
        THEN [fs |-> fs, res |-> Fail("add_skill", skill_id, "view_not_found")]
    ELSE CreateSkill(fs, "add_skill", skill_id, in.name, in.description,
                     in.intent_triggers, in.output_view, in.internal_tools,
                     in.requires_auth, ViewPropsOf(fs, in.output_view))

SkillFields == {"name", "description", "intent_triggers", "output_view",
                "internal_tools", "requires_auth"}

\* every field of ov is a set of at most one value: {} is None
UpdateSkill(fs, skill_id, ov) ==
    LET supplied == {f \in SkillFields : ov[f] # {}}
        fail(error) == [fs |-> fs, res |-> Fail("update_skill", skill_id, error)]
        pick(f, default) == IF ov[f] # {} THEN CHOOSE x \in ov[f] : TRUE ELSE default
    IN  IF fs.skillsAgg.shape = "missing" THEN fail("no_aggregate")
        ELSE IF fs.skillsAgg.shape = "invalid" THEN fail("parse_error")
        \* "skill_id not in schemas" / schemas.keys() on a value that is not a
        \* dict raises TypeError or AttributeError to the caller
        ELSE IF fs.skillsAgg.shape # "dict" THEN fail("raised")
        ELSE IF skill_id \notin DOMAIN fs.skillsAgg.entries THEN fail("not_found")
        ELSE IF supplied = {} THEN fail("nothing")
        ELSE LET current == fs.skillsAgg.entries[skill_id]
                 final_name     == pick("name", current.name)
                 final_desc     == pick("description", current.description)
                 final_triggers == pick("intent_triggers", current.intent_triggers)
                 final_view     == pick("output_view", current.output.view)
                 final_tools    == pick("internal_tools", current.internal_tools)
                 final_auth     == pick("requires_auth", current.requires_auth)
             IN  IF NamesView(final_view) /\ final_view \notin DOMAIN fs.viewDirs
                     THEN fail("view_not_found")
                 ELSE LET removed == [fs EXCEPT
                                !.skillDirs = DelKey(fs.skillDirs, PathName(skill_id)),
                                !.skillsAgg = JsonDict(DelKey(fs.skillsAgg.entries, skill_id))]
                      IN  (CreateSkill(removed, "update_skill", skill_id, final_name,
                                          final_desc, final_triggers, final_view,
                                          {final_tools}, final_auth,
                                          ViewPropsOf(fs, final_view)))

\* "if skill_id == "show_welcome": return error"
IsSentinelSkill(skill_id) == skill_id = "show_welcome"

RemoveSkill(fs, skill_id) ==
    LET dir == PathName(skill_id)
    IN  IF dir \notin DOMAIN fs.skillDirs
            THEN [fs |-> fs, res |-> Fail("remove_skill", skill_id, "not_found")]
        ELSE IF IsSentinelSkill(skill_id)
            THEN [fs |-> fs, res |-> Fail("remove_skill", skill_id, "sentinel")]
        ELSE LET removed == [fs EXCEPT !.skillDirs = DelKey(fs.skillDirs, dir)]
                 drop    == DropAggregateEntry(fs.skillsAgg, skill_id)
             IN  IF drop.raised
                     THEN [fs |-> removed, res |-> Fail("remove_skill", skill_id, "exception")]
                     ELSE [fs  |-> [removed EXCEPT !.skillsAgg = drop.doc],
                           res |-> Ok("remove_skill", skill_id)]

-----------------------------------------------------------------------------
(* validate: the shape check of tools/schemas.json *)

\* _validate_tools_schema_format: the set of errors it returns for a
\* tools/schemas.json that exists
ToolsSchemaFormatErrors(doc) ==
    CASE doc.shape = "invalid" -> {"invalid_json"}
      [] doc.shape = "list"    -> {"array_format"}
      [] doc.shape = "dict"    ->
            {"missing_function: " \o k :
                k \in {x \in DOMAIN doc.entries : "function" \notin DOMAIN doc.entries[x]}}
      [] OTHER                 -> {}

-----------------------------------------------------------------------------
(* validate *)

\* the trigger phrases of the model: the six of the welcome skill and three
\* a caller passes
TriggerTexts ==
    {"start over", "go home", "main menu", "welcome", "inicio", "volver al inicio",
     "go", "Go ", "stop"}

TriggerChars ==
    [t \in TriggerTexts |->
        CASE t = "start over" -> <<"s", "t", "a", "r", "t", " ", "o", "v", "e", "r">>
          [] t = "go home" -> <<"g", "o", " ", "h", "o", "m", "e">>
          [] t = "main menu" -> <<"m", "a", "i", "n", " ", "m", "e", "n", "u">>
          [] t = "welcome" -> <<"w", "e", "l", "c", "o", "m", "e">>
          [] t = "inicio" -> <<"i", "n", "i", "c", "i", "o">>
          [] t = "volver al inicio" -> <<"v", "o", "l", "v", "e", "r", " ", "a", "l", " ", "i", "n", "i", "c", "i", "o">>
          [] t = "go" -> <<"g", "o">>
          [] t = "Go " -> <<"G", "o", " ">>
          [] t = "stop" -> <<"s", "t", "o", "p">>]

\* str.lower() on the characters of the model
LowerChar(c) == IF c = "G" THEN "g" ELSE c

\* str.strip(): leading and trailing blanks removed
RECURSIVE StripBlanks(_)
StripBlanks(cs) ==
    IF cs = <<>> THEN cs
    ELSE IF Head(cs) = " " THEN StripBlanks(Tail(cs))
    ELSE IF cs[Len(cs)] = " " THEN StripBlanks(SubSeq(cs, 1, Len(cs) - 1))
    ELSE cs

\* trigger.lower().strip(), as the phrase that spells the result
NormalizedTrigger(t) ==
    LET cs == StripBlanks([i \in 1..Len(TriggerChars[t]) |-> LowerChar(TriggerChars[t][i])])
    IN  CHOOSE n \in TriggerTexts : TriggerChars[n] = cs

\* one entry of the error list or of the warning list: who are the skills
\* the message names, what is the file, view, tool or trigger it names
Finding(kind, who, what) == [kind |-> kind, who |-> who, what |-> what]

RECURSIVE Concat(_)
Concat(seqs) == IF seqs = <<>> THEN <<>> ELSE Head(seqs) \o Concat(Tail(seqs))

RECURSIVE SeqOfSet(_)
SeqOfSet(S) ==
    IF S = {} THEN <<>>
    ELSE LET x == CHOOSE y \in S : TRUE IN <<x>> \o SeqOfSet(S \ {x})

\* "existing_tools": the keys of a dict aggregate, t.get("name") of the
\* elements of a list aggregate (None when the element has no "name" key),
\* empty when the file is missing or reading it raises
ExistingTools(doc) ==
    CASE doc.shape = "dict" -> DOMAIN doc.entries
      [] doc.shape = "list" ->
            {IF "name" \in DOMAIN doc.items[i] THEN doc.items[i].name ELSE "None" :
                i \in 1..Len(doc.items)}
      [] OTHER -> {}

\* the folders of views/ that hold a view.tsx
ExistingViews(fs) == DOMAIN fs.viewDirs

\* schemas.items(): the skills of the aggregate (taken in name order)
SkillOrder(doc) == SortedIds(DOMAIN doc.entries, NameOrder)

\* the body of "for skill_id, skill_data in schemas.items()" up to the
\* collection of triggers; callsRenderView says whether the SKILL.md files
\* contain "render_view("
SkillFindings(fs, skill_id, callsRenderView) ==
    LET data == fs.skillsAgg.entries[skill_id]
        view_id == data.output.view
    IN  [errors |->
            IF view_id # "" /\ view_id # "NONE" /\ view_id \notin ExistingViews(fs)
                THEN <<Finding("missing_view", <<skill_id>>, view_id)>> ELSE <<>>,
         warnings |->
            (IF PathName(skill_id) \notin DOMAIN fs.skillDirs
                 THEN <<Finding("missing_skill_md", <<skill_id>>, "SKILL.md")>>
             ELSE IF callsRenderView
                 THEN <<Finding("render_view", <<skill_id>>, "render_view()")>>
             ELSE <<>>)
            \o [i \in DOMAIN SelectSeq(data.internal_tools,
                                       LAMBDA t : t \notin ExistingTools(fs.toolsAgg)) |->
                   Finding("missing_tool", <<skill_id>>,
                           SelectSeq(data.internal_tools,
                                     LAMBDA t : t \notin ExistingTools(fs.toolsAgg))[i])]]

\* trigger_to_skills as the list of (normalized trigger, skill id) pairs in
\* the order the loop appends them
TriggerClaims(doc) ==
    Concat([k \in DOMAIN SkillOrder(doc) |->
              LET id == SkillOrder(doc)[k]
                  ts == doc.entries[id].intent_triggers
              IN  [i \in DOMAIN ts |-> <<NormalizedTrigger(ts[i]), id>>]])

\* the keys of trigger_to_skills in insertion order
RECURSIVE FirstOccurrences(_, _)
FirstOccurrences(xs, seen) ==
    IF xs = <<>> THEN <<>>
    ELSE IF Head(xs) \in seen THEN FirstOccurrences(Tail(xs), seen)
    ELSE <<Head(xs)>> \o FirstOccurrences(Tail(xs), seen \cup {Head(xs)})

\* "if len(skills) > 1: warnings.append(Duplicate trigger ... in skills ...)"
DuplicateTriggerWarnings(doc) ==
    LET claims == TriggerClaims(doc)
        keys == FirstOccurrences([i \in DOMAIN claims |-> claims[i][1]], {})
        skillsOf(t) == LET mine == SelectSeq(claims, LAMBDA c : c[1] = t)
                       IN  [i \in DOMAIN mine |-> mine[i][2]]
        dups == SelectSeq(keys, LAMBDA t : Len(skillsOf(t)) > 1)
    IN  [i \in DOMAIN dups |-> Finding("duplicate_trigger", skillsOf(dups[i]), dups[i])]

\* "for skill_folder in skill_folders: if skill_folder.name not in schemas"
OrphanWarnings(fs) ==
    LET orphans == SortedIds(DOMAIN fs.skillDirs \ DOMAIN fs.skillsAgg.entries, NameOrder)
    IN  [i \in DOMAIN orphans |-> Finding("orphan_folder", <<orphans[i]>>, orphans[i])]

\* _validate_skills: raised says that reading a document that is not a dict
\* raised (schemas.items())
ValidateSkills(fs, callsRenderView) ==
    LET none == [errors |-> <<>>, warnings |-> <<>>, raised |-> FALSE]
        doc == fs.skillsAgg
    IN  IF DOMAIN fs.skillDirs # {} /\ ~Exists(doc)
            THEN [none EXCEPT !.errors = <<Finding("skills_schema_missing", <<>>, "skills/schemas.json")>>]
        ELSE IF ~Exists(doc) THEN none
        ELSE IF doc.shape = "invalid"
            THEN [none EXCEPT !.errors = <<Finding("invalid_json", <<>>, "skills/schemas.json")>>]
        ELSE IF doc.shape # "dict" THEN [none EXCEPT !.raised = TRUE]
        ELSE LET per == [k \in DOMAIN SkillOrder(doc) |->
                            SkillFindings(fs, SkillOrder(doc)[k], callsRenderView)]
             IN  [errors   |-> Concat([k \in DOMAIN per |-> per[k].errors]),
                  warnings |-> Concat([k \in DOMAIN per |-> per[k].warnings])
                                   \o OrphanWarnings(fs) \o DuplicateTriggerWarnings(doc),
                  raised   |-> FALSE]

\* required_files in the order validate tests them
RequiredFiles == <<"agent.py", "metadata.json", "prompts/agent.md", "views/welcome/view.tsx">>

\* mutant: metadata.json is not looked for
RequiredFileExists_NoMetadata(fs, present, f) ==
    IF f = "views/welcome/view.tsx" THEN "welcome" \in DOMAIN fs.viewDirs
    ELSE f = "metadata.json" \/ f \in present

\* "(project_dir / f).exists()"
RequiredFileExists(fs, present, f) ==
    IF f = "views/welcome/view.tsx" THEN "welcome" \in DOMAIN fs.viewDirs ELSE f \in present

\* what validate finds in files whose text the tools do not determine:
\* pyErrors are the findings of the syntax, signature and type-hint pass
\* over agent.py and tools/*.py, hasPolicy says that prompts/agent.md names a
\* language policy, callsRenderView that the SKILL.md files call render_view
FileContents ==
    {[pyErrors |-> <<>>, hasPolicy |-> TRUE, callsRenderView |-> FALSE],
     [pyErrors |-> <<>>, hasPolicy |-> FALSE, callsRenderView |-> TRUE],
     [pyErrors |-> <<Finding("type_hint", <<>>, "agent.py")>>,
      hasPolicy |-> FALSE, callsRenderView |-> FALSE]}

\* mutant: a run with warnings fails
ValidateResult_WarningsBlock(strict, errors, warnings) ==
    LET base == [Result("validate", "", TRUE, "none") EXCEPT !.strict = strict]
    IN  IF errors # <<>> \/ warnings # <<>>
            THEN [base EXCEPT !.success = FALSE, !.error = "validation_failed",
                              !.details = errors, !.warnings = warnings]
            ELSE [base EXCEPT !.warnings = warnings]

\* "if errors: return {success: False, details: errors, warnings?}" and the
\* success result that follows it
ValidateResult(strict, errors, warnings) ==
    LET base == [Result("validate", "", TRUE, "none") EXCEPT !.strict = strict]
    IN  IF errors # <<>>
            THEN [base EXCEPT !.success = FALSE, !.error = "validation_failed",
                              !.details = errors, !.warnings = warnings]
            ELSE [base EXCEPT !.warnings = warnings]

Validate(fs, present, strict, content) ==
    LET missing == SelectSeq(RequiredFiles, LAMBDA f : ~RequiredFileExists(fs, present, f))
        toolsErrors ==
            IF ~Exists(fs.toolsAgg) /\ DOMAIN fs.toolFiles # {}
                THEN <<Finding("tools_schema_missing", <<>>, "tools/schemas.json")>>
            ELSE IF Exists(fs.toolsAgg)
                THEN LET es == SeqOfSet(ToolsSchemaFormatErrors(fs.toolsAgg))
                     IN  [i \in DOMAIN es |-> Finding(es[i], <<>>, "tools/schemas.json")]
            ELSE <<>>
        viewsErrors ==
            IF ~Exists(fs.viewsAgg) /\ DOMAIN fs.viewDirs # {}
                THEN <<Finding("views_schema_missing", <<>>, "views/schemas.json")>>
                ELSE <<>>
        skills == ValidateSkills(fs, content.callsRenderView)
        promptWarnings ==
            IF content.hasPolicy THEN <<>>
            ELSE <<Finding("language_policy", <<>>, "prompts/agent.md")>>
        errors == IF strict
                     THEN content.pyErrors \o toolsErrors \o viewsErrors \o skills.errors
                     ELSE <<>>
        warnings == IF strict THEN skills.warnings \o promptWarnings ELSE <<>>
        base == [Result("validate", "", TRUE, "none") EXCEPT !.strict = strict]
    IN  IF missing # <<>>
            THEN [fs |-> fs, res |-> [base EXCEPT !.success = FALSE,
                                                  !.error = "missing_required",
                                                  !.missing = missing]]
        ELSE IF strict /\ skills.raised
            THEN [fs |-> fs, res |-> [base EXCEPT !.success = FALSE, !.error = "raised"]]
        ELSE [fs |-> fs, res |-> ValidateResult(strict, errors, warnings)]

-----------------------------------------------------------------------------
(* initialize_project *)

EmptyStore(order) ==
    [toolFiles |-> <<>>, toolsAgg |-> Missing, globOrder |-> order,
     viewDirs |-> <<>>, viewsAgg |-> Missing,
     skillDirs |-> <<>>, skillsAgg |-> Missing]

WelcomeTriggers == <<"start over", "go home", "main menu", "welcome", "inicio", "volver al inicio">>

\* template "basic": the welcome view, the show_welcome skill, then
\* generate_schemas(force=False)
InitializeProject(order) ==
    LET fs1 == CreateView(EmptyStore(order), "initialize_project", "welcome",
                          "Welcome view for the agent", WelcomeProps).fs
        fs2 == CreateSkill(fs1, "initialize_project", "show_welcome", "Show Welcome",
                           "Display the welcome screen", WelcomeTriggers, "welcome",
                           {<<>>}, FALSE,
                           [n \in {"title"} |->
                               [type |-> "string", description |-> "Welcome title"]]).fs
    IN  [fs |-> GenerateSchemas(fs2, FALSE).fs, res |-> Ok("initialize_project", "")]

GlobOrders == {<<"calc_1", "t2">>, <<"t2", "calc_1">>}

\* the top-level files initialize_project writes and validate requires
RequiredTopFiles == {"agent.py", "metadata.json", "prompts/agent.md"}

NoSubject == [kind |-> "none"]

SetStore(fs) ==
    /\ toolFiles = fs.toolFiles
    /\ toolsAgg = fs.toolsAgg
    /\ globOrder = fs.globOrder
    /\ viewDirs = fs.viewDirs
    /\ viewsAgg = fs.viewsAgg
    /\ skillDirs = fs.skillDirs
    /\ skillsAgg = fs.skillsAgg

Init ==
    \E order \in GlobOrders :
        /\ SetStore(InitializeProject(order).fs)
        /\ requiredFiles = RequiredTopFiles
        /\ subject = NoSubject
        /\ last = InitializeProject(order).res

\* json documents a schemas.json may hold when an operation reads it
AnyDocs == {Missing, Invalid, JsonNull, JsonNumber, JsonList(<<>>), JsonDict(<<>>)}

\* an initialized project in which one of the three aggregate documents has
\* been replaced on disk
InitStore ==
    LET fs == InitializeProject(<<"calc_1", "t2">>).fs
    IN  /\ \E kind \in {"tools", "views", "skills"}, doc \in AnyDocs :
               SetStore([fs EXCEPT
                   !.toolsAgg  = IF kind = "tools"  THEN doc ELSE @,
                   !.viewsAgg  = IF kind = "views"  THEN doc ELSE @,
                   !.skillsAgg = IF kind = "skills" THEN doc ELSE @])
        /\ requiredFiles = RequiredTopFiles
        /\ subject = NoSubject
        /\ last = InitializeProject(<<"calc_1", "t2">>).res

\* the same project, for the specifications that add no tool
InitNoTools ==
    /\ SetStore(InitializeProject(<<"calc_1", "t2">>).fs)
    /\ requiredFiles = RequiredTopFiles
    /\ subject = NoSubject
    /\ last = InitializeProject(<<"calc_1", "t2">>).res

-----------------------------------------------------------------------------
(* Actions: one per operation *)

Apply(r) ==
    /\ toolFiles' = r.fs.toolFiles
    /\ toolsAgg' = r.fs.toolsAgg
    /\ globOrder' = r.fs.globOrder
    /\ viewDirs' = r.fs.viewDirs
    /\ viewsAgg' = r.fs.viewsAgg
    /\ skillDirs' = r.fs.skillDirs
    /\ skillsAgg' = r.fs.skillsAgg
    /\ last' = r.res
    /\ UNCHANGED <<requiredFiles, subject>>

DoAddTool ==
    \E id \in ToolIdInputs, d \in Descs, p \in ParamTables :
        Apply(AddTool(store, id, d, p))

DoUpdateTool ==
    \E id \in ToolNames, d \in {{}} \cup {{x} : x \in Descs},
       p \in {{}} \cup {{x} : x \in ParamTables} :
        Apply(UpdateTool(store, id, d, p))

DoRemoveTool ==
    \E id \in ToolNames : Apply(RemoveTool(store, id))

\* repeat: this call directly follows another generate_schemas(force=True)
DoGenerateSchemas ==
    \E force \in BOOLEAN :
        LET r == GenerateSchemas(store, force)
        IN  Apply([fs  |-> r.fs,
                   res |-> [r.res EXCEPT !.repeat =
                               force /\ last.op = "generate_schemas" /\ last.force]])

DoAddView ==
    \E id \in ViewNames \cup BadIds, d \in Descs, p \in PropTables :
        Apply(AddView(store, id, d, p))

DoUpdateView ==
    \E id \in ViewNames, d \in {{}} \cup {{x} : x \in Descs},
       p \in {{}} \cup {{x} : x \in PropTables} :
        Apply(UpdateView(store, id, d, p))

DoRemoveView ==
    \E id \in ViewNames : Apply(RemoveView(store, id))

\* remove_view with a path spelling of a view folder
DoRemoveViewByPath ==
    \E id \in ViewIdInputs \ (ViewNames \cup BadIds) : Apply(RemoveView(store, id))

\* add_skill arguments
SkillInputs ==
    [name : {"n1"}, description : {DescText[1]},
     intent_triggers : {<<"go">>, <<>>}, output_view : {"NONE", "results"},
     internal_tools : {{}}, requires_auth : {FALSE}]

\* update_skill overrides: every field is None ({}) or one new value; name
\* and requires_auth are left None in every call
SkillOverrides ==
    [name : {{}}, description : {{}, {DescText[2]}},
     intent_triggers : {{}, {<<>>}}, output_view : {{}, {"NONE"}, {"results"}},
     internal_tools : {{}, {<<"calc_1">>}}, requires_auth : {{}}]

NoOverride == [f \in SkillFields |-> {}]

\* one call overrides at most MaxOverrides fields
MaxOverrides == 2

FewOverrides == {ov \in SkillOverrides : Cardinality({f \in SkillFields : ov[f] # {}}) <= MaxOverrides}

\* the overrides tried on the sentinel skill: its view and its description
SentinelOverrides ==
    {ov \in FewOverrides : \A f \in SkillFields \ {"output_view", "description"} : ov[f] = {}}

DoAddSkill ==
    \E id \in SkillNames \cup BadIds, in \in SkillInputs : Apply(AddSkill(store, id, in))

DoUpdateSkill ==
    \E id \in SkillNames :
        \E ov \in (IF id = "show_welcome" THEN SentinelOverrides ELSE FewOverrides) :
            Apply(UpdateSkill(store, id, ov))

DoRemoveSkill ==
    \E id \in SkillNames : Apply(RemoveSkill(store, id))

\* remove_skill with a path spelling of a skill folder
DoRemoveSkillByPath ==
    \E id \in SkillIdInputs \ (SkillNames \cup BadIds) : Apply(RemoveSkill(store, id))

\* the skills actions need views to refer to: views are added with one
\* description and no props
DoAddPlainView ==
    \E id \in ViewNames : Apply(AddView(store, id, DescText[1], NoProps))

DoAddPlainTool ==
    \E id \in ToolNames : Apply(AddTool(store, id, DescText[1], NoParams))

DoAddPlainSkill ==
    \E id \in SkillNames :
        Apply(AddSkill(store, id, [name |-> "n1", description |-> DescText[1],
                                   intent_triggers |-> <<"go">>, output_view |-> "NONE",
                                   internal_tools |-> {}, requires_auth |-> FALSE]))

\* the tools of a project: add_tool, update_tool, remove_tool, generate_schemas
Next == DoAddTool \/ DoUpdateTool \/ DoRemoveTool \/ DoGenerateSchemas

Spec == Init /\ [][Next]_vars

\* the views of a project
NextViews ==
    DoAddView \/ DoUpdateView \/ DoRemoveView \/ DoRemoveViewByPath \/ DoGenerateSchemas

SpecViews == InitNoTools /\ [][NextViews]_vars

\* the skills of a project and the views they name
NextSkills ==
    \/ DoAddSkill \/ DoUpdateSkill \/ DoRemoveSkill \/ DoRemoveSkillByPath
    \/ DoAddPlainView \/ DoRemoveView \/ DoRemoveViewByPath

SpecSkills == InitNoTools /\ [][NextSkills]_vars

\* operations on a project whose aggregate documents hold arbitrary JSON
NextStore ==
    \/ DoAddPlainTool \/ DoRemoveTool
    \/ DoAddPlainView \/ DoRemoveView
    \/ DoAddPlainSkill \/ DoRemoveSkill
    \/ DoGenerateSchemas

SpecStore == InitStore /\ [][NextStore]_vars

\* at most MaxMissing files of the initialized project have been deleted
MaxMissing == 1

\* an initialized project from which some of the required top-level files
\* and tools/schemas.json may have been deleted
InitValidate ==
    LET fs == InitializeProject(<<"calc_1", "t2">>).fs
    IN  /\ \E gone \in {g \in SUBSET (RequiredTopFiles \cup {"tools/schemas.json"}) :
                            Cardinality(g) <= MaxMissing} :
               /\ SetStore([fs EXCEPT !.toolsAgg =
                                IF "tools/schemas.json" \in gone THEN Missing ELSE @])
               /\ requiredFiles = RequiredTopFiles \ gone
        /\ subject = NoSubject
        /\ last = InitializeProject(<<"calc_1", "t2">>).res

\* intent_triggers a caller passes to add_skill
TriggerLists == {<<"go">>, <<"go", "Go ">>, <<"welcome">>, <<"stop">>}

DoAddTriggerSkill ==
    \E ts \in TriggerLists, v \in {"NONE", "results", ""}, it \in {{}, {<<"calc_1">>}} :
        Apply(AddSkill(store, "s2", [name |-> "n1", description |-> DescText[1],
                                     intent_triggers |-> ts, output_view |-> v,
                                     internal_tools |-> it, requires_auth |-> FALSE]))

\* update_skill calls that set exactly one field
SingleOverrides ==
    {ov \in SkillOverrides : Cardinality({f \in SkillFields : ov[f] # {}}) = 1}

DoUpdateSkillField ==
    \E ov \in SingleOverrides : Apply(UpdateSkill(store, "s2", ov))

\* the tool the skills of the model list in internal_tools
DoAddListedTool ==
    Apply(AddTool(store, "calc_1", DescText[1], NoParams))

DoValidate ==
    \E strict \in BOOLEAN, content \in FileContents :
        Apply(Validate(store, requiredFiles, strict, content))

\* validate on a project under construction
NextValidate ==
    \/ DoValidate
    \/ DoAddTriggerSkill \/ DoUpdateSkillField \/ DoRemoveSkill
    \/ DoAddPlainView \/ DoRemoveView
    \/ DoAddListedTool \/ DoGenerateSchemas

SpecValidate == InitValidate /\ [][NextValidate]_vars

-----------------------------------------------------------------------------
(* The calling-convention check of validate *)

\* a function definition has at most MaxArgs parameters
MaxArgs == 2

ArgNames == {"params", "self", "x"}

ArgLists == UNION {[1..n -> ArgNames] : n \in 0..MaxArgs}

\* python files validate walks: tool files and support files of tools/,
\* and agent.py of the project root
PyFiles ==
    {[name |-> "calc_1.py", inTools |-> TRUE], [name |-> "db.py", inTools |-> TRUE],
     [name |-> "models.py", inTools |-> TRUE], [name |-> "seed_data.py", inTools |-> TRUE],
     [name |-> "agent.py", inTools |-> FALSE]}

SupportFiles == {"db.py", "models.py", "seed_data.py", "__init__.py"}

FuncChars ==
    [f \in {"calc_1", "_helper"} |->
        IF f = "calc_1" THEN <<"c", "a", "l", "c", "_", "1">>
                        ELSE <<"_", "h", "e", "l", "p", "e", "r">>]

\* node.name.startswith("_")
IsPrivate(f) == Len(FuncChars[f]) > 0 /\ FuncChars[f][1] = "_"

\* _validate_tool_signature(func_node, filename)
ValidateToolSignature(func_name, arg_names, filename) ==
    LET args == SelectSeq(arg_names, LAMBDA a : a # "self")
    IN  IF Len(args) = 1 /\ args[1] = "params" THEN <<>>
        ELSE IF Len(args) > 1
            THEN <<Finding("individual_parameters", <<func_name>>, filename)>>
        ELSE IF Len(args) = 1 /\ args[1] # "params"
            THEN <<Finding("single_param_name", <<func_name>>, filename)>>
        ELSE <<>>

\* the signature part of the loop "for node in ast.walk(tree)" for one
\* FunctionDef node of one file (the type-hint findings are left out)
SignatureErrors(file, func_name, arg_names) ==
    IF IsPrivate(func_name) THEN <<>>
    ELSE IF file.inTools /\ file.name \notin SupportFiles
        THEN ValidateToolSignature(func_name, arg_names, file.name)
    ELSE <<>>

InitSignature ==
    /\ SetStore(InitializeProject(<<"calc_1", "t2">>).fs)
    /\ requiredFiles = RequiredTopFiles
    /\ subject \in [kind : {"function"}, file : PyFiles, name : DOMAIN FuncChars,
                    args : ArgLists]
    /\ last = InitializeProject(<<"calc_1", "t2">>).res

DoCheckSignature ==
    /\ subject.kind = "function"
    /\ last.op # "check_signature"
    /\ last' = [Result("check_signature", subject.name, TRUE, "none") EXCEPT
                   !.details = SignatureErrors(subject.file, subject.name, subject.args)]
    /\ UNCHANGED <<toolFiles, toolsAgg, globOrder, viewDirs, viewsAgg, skillDirs,
                   skillsAgg, requiredFiles, subject>>

NextSignature == DoCheckSignature

SpecSignature == InitSignature /\ [][NextSignature]_vars

-----------------------------------------------------------------------------
(* generate_schema for the bundled convention: the Args section *)

\* an Args section documents at most MaxEntries parameters
MaxEntries == 2

ParamWords == {"weight", "height"}

Markers == {"(optional)", "(Optional)"}

\* the text of one entry after the parameter's colon
DescriptionWords == <<"Height", "in", "m">>

\* the lines of an Args section, as the tokens a blank separates (a colon
\* stands directly after the token before it): with or without the leading
\* dash, and with the marker after the name, at the start of the
\* description, at its end, or absent
EntryLine(dash, n, pre, mid, post) ==
    (IF dash THEN <<"-">> ELSE <<>>) \o <<n>> \o pre \o <<":">> \o mid
        \o DescriptionWords \o post

\* where the marker stands: <<after the name, before the text, after it>>
MarkerPlaces ==
    {<<<<>>, <<>>, <<>>>>}
        \cup {<<<<m>>, <<>>, <<>>>> : m \in Markers}
        \cup {<<<<>>, <<m>>, <<>>>> : m \in Markers}
        \cup {<<<<>>, <<>>, <<m>>>> : m \in Markers}

EntryLines ==
    {EntryLine(dash, n, pl[1], pl[2], pl[3]) :
        dash \in BOOLEAN, n \in ParamWords, pl \in MarkerPlaces}

\* \w+ : a token made of word characters
IsWord(tok) == tok \in ParamWords \cup {DescriptionWords[i] : i \in DOMAIN DescriptionWords}

\* r'-\s*(\w+):\s*([^\n]+)' on one line
MatchesDashStyle(line) ==
    Len(line) >= 4 /\ line[1] = "-" /\ IsWord(line[2]) /\ line[3] = ":"

\* r'^\s+(\w+):\s*([^\n]+)' on one line
MatchesTraditional(line) ==
    Len(line) >= 3 /\ IsWord(line[1]) /\ line[2] = ":"

\* re.sub(r'\s*\(optional\)\s*$', '', description)
StripOptionalSuffix(desc) ==
    IF Len(desc) > 0 /\ desc[Len(desc)] = "(optional)"
        THEN SubSeq(desc, 1, Len(desc) - 1) ELSE desc

\* dict assignment descriptions[name] = d: a present key keeps its place
SetDescription(ds, name, d) ==
    IF \E i \in DOMAIN ds : ds[i].name = name
        THEN [i \in DOMAIN ds |-> IF ds[i].name = name THEN [name |-> name, description |-> d]
                                                       ELSE ds[i]]
        ELSE Append(ds, [name |-> name, description |-> d])

RECURSIVE DashStylePass(_, _)
DashStylePass(lines, ds) ==
    IF lines = <<>> THEN ds
    ELSE LET line == Head(lines)
         IN  DashStylePass(Tail(lines),
                 IF MatchesDashStyle(line)
                     THEN SetDescription(ds, line[2],
                              StripOptionalSuffix(SubSeq(line, 4, Len(line))))
                     ELSE ds)

RECURSIVE TraditionalPass(_, _)
TraditionalPass(lines, ds) ==
    IF lines = <<>> THEN ds
    ELSE LET line == Head(lines)
         IN  TraditionalPass(Tail(lines),
                 IF MatchesTraditional(line) /\ ~\E i \in DOMAIN ds : ds[i].name = line[1]
                     THEN SetDescription(ds, line[1], SubSeq(line, 3, Len(line)))
                     ELSE ds)

\* extract_param_descriptions(docstring), the Args section given as lines
ExtractParamDescriptions(lines) == TraditionalPass(lines, DashStylePass(lines, <<>>))

\* '"(optional)" not in description.lower()'
LacksOptionalMarker(desc) == \A i \in DOMAIN desc : desc[i] \notin Markers

\* the type guessed from the words of the description
JsonTypeOfDescription(desc) ==
    LET has(w) == \E i \in DOMAIN desc : desc[i] = w
    IN  IF has("integer") THEN "integer"
        ELSE IF has("number") THEN "number"
        ELSE IF has("boolean") \/ has("true/false") THEN "boolean"
        ELSE IF has("array") \/ has("list") THEN "array"
        ELSE IF has("object") \/ has("dict") THEN "object"
        ELSE "string"

\* generate_schema(func)["function"]["parameters"] for "uses_params_dict"
BundledParameters(lines) ==
    LET ds == ExtractParamDescriptions(lines)
        req == SelectSeq(ds, LAMBDA d : LacksOptionalMarker(d.description))
    IN  [properties |-> [i \in DOMAIN ds |->
                            [name |-> ds[i].name,
                             type |-> JsonTypeOfDescription(ds[i].description),
                             description |-> ds[i].description]],
         required |-> [i \in DOMAIN req |-> req[i].name]]

InitDocstring ==
    /\ SetStore(InitializeProject(<<"calc_1", "t2">>).fs)
    /\ requiredFiles = RequiredTopFiles
    /\ subject \in [kind : {"docstring"},
                    lines : UNION {[1..n -> EntryLines] : n \in 1..MaxEntries}]
    /\ last = InitializeProject(<<"calc_1", "t2">>).res

DoGenerateSchema ==
    /\ subject.kind = "docstring"
    /\ last.op # "generate_schema"
    /\ last' = [Result("generate_schema", "", TRUE, "none") EXCEPT
                   !.value = BundledParameters(subject.lines)]
    /\ UNCHANGED <<toolFiles, toolsAgg, globOrder, viewDirs, viewsAgg, skillDirs,
                   skillsAgg, requiredFiles, subject>>

NextDocstring == DoGenerateSchema

SpecDocstring == InitDocstring /\ [][NextDocstring]_vars

-----------------------------------------------------------------------------
(* generate_schema: the Returns section *)

\* a description has at most MaxWords words
MaxWords == 2

\* the words the two keyword heuristics look for, and one they do not
TypeWords ==
    {"number", "integer", "count", "boolean", "true/false", "array", "list",
     "object", "dict", "the"}

Descriptions == UNION {[1..n -> TypeWords] : n \in 0..MaxWords}

\* the type extract_return_properties guesses from the words of a description
JsonTypeOfReturn(desc) ==
    LET has(w) == \E i \in DOMAIN desc : desc[i] = w
    IN  IF has("number") \/ has("count") THEN "number"
        ELSE IF has("boolean") \/ has("true/false") THEN "boolean"
        ELSE IF has("array") \/ has("list") THEN "array"
        ELSE IF has("object") \/ has("dict") THEN "object"
        ELSE "string"

\* extract_return_properties for a docstring whose Returns section, when it
\* has one, documents the property "result" with the given description
ExtractReturnProperties(hasReturns, desc) ==
    IF hasReturns /\ desc # <<>>
        THEN <<[name |-> "result", type |-> JsonTypeOfReturn(desc), description |-> desc]>>
        ELSE <<>>

\* "return_properties if return_properties else {status, message}"
ReturnsProperties(hasReturns, desc) ==
    IF ExtractReturnProperties(hasReturns, desc) # <<>>
        THEN ExtractReturnProperties(hasReturns, desc)
        ELSE <<[name |-> "status", type |-> "string", description |-> <<>>],
               [name |-> "message", type |-> "string", description |-> <<>>]>>

InitReturns ==
    /\ SetStore(InitializeProject(<<"calc_1", "t2">>).fs)
    /\ requiredFiles = RequiredTopFiles
    /\ subject \in [kind : {"described"}, hasReturns : BOOLEAN, desc : Descriptions]
    /\ last = InitializeProject(<<"calc_1", "t2">>).res

\* generate_schema of a bundled function whose Args entry and Returns entry
\* carry the same description
DoGenerateTypedSchema ==
    /\ subject.kind = "described"
    /\ last.op # "generate_schema"
    /\ last' = [Result("generate_schema", "", TRUE, "none") EXCEPT
                   !.value = [paramType |-> JsonTypeOfDescription(subject.desc),
                              returns |-> ReturnsProperties(subject.hasReturns, subject.desc)]]
    /\ UNCHANGED <<toolFiles, toolsAgg, globOrder, viewDirs, viewsAgg, skillDirs,
                   skillsAgg, requiredFiles, subject>>

NextReturns == DoGenerateTypedSchema

SpecReturns == InitReturns /\ [][NextReturns]_vars

-----------------------------------------------------------------------------
(* generate_schema for the direct convention: the signature *)

\* a function of the direct convention has at most MaxParams parameters
MaxParams == 2

DirectNames == {"a", "b", "c"}

\* one parameter of a signature: annotated or not, with a default or not
DirectParams == [name : DirectNames, annotated : BOOLEAN, hasDefault : BOOLEAN]

\* the signatures Python accepts: distinct names, and no parameter without
\* a default after one that has a default
Signatures ==
    {sig \in UNION {[1..n -> DirectParams] : n \in 0..MaxParams} :
        /\ \A i, j \in DOMAIN sig : i # j => sig[i].name # sig[j].name
        /\ \A i, j \in DOMAIN sig : (i < j /\ sig[i].hasDefault) => sig[j].hasDefault}

\* the else branch of "if uses_params_dict": one property per entry of
\* get_type_hints(func), required when sig.parameters[name] has no default
DirectParameters(sig) ==
    LET hinted == SelectSeq(sig, LAMBDA p : p.annotated)
        req    == SelectSeq(hinted, LAMBDA p : ~p.hasDefault)
    IN  [properties |-> [i \in DOMAIN hinted |-> hinted[i].name],
         required   |-> [i \in DOMAIN req |-> req[i].name]]

InitDirect ==
    /\ SetStore(InitializeProject(<<"calc_1", "t2">>).fs)
    /\ requiredFiles = RequiredTopFiles
    /\ subject \in [kind : {"signature"}, sig : Signatures]
    /\ last = InitializeProject(<<"calc_1", "t2">>).res

DoGenerateDirectSchema ==
    /\ subject.kind = "signature"
    /\ last.op # "generate_schema"
    /\ last' = [Result("generate_schema", "", TRUE, "none") EXCEPT
                   !.value = DirectParameters(subject.sig)]
    /\ UNCHANGED <<toolFiles, toolsAgg, globOrder, viewDirs, viewsAgg, skillDirs,
                   skillsAgg, requiredFiles, subject>>

NextDirect == DoGenerateDirectSchema

SpecDirect == InitDirect /\ [][NextDirect]_vars

-----------------------------------------------------------------------------
(* Annotations: add_tool's type mapping and python_type_to_json_type *)

CanonicalTypes == {"string", "number", "integer", "boolean", "array", "object"}

\* the names add_tool writes into annotations
PyTypeNames == {"str", "float", "int", "bool", "List", "dict"}

\* the type object an annotation text evaluates to in the rendered file:
\* "Optional[X] = None" is the annotation Union[X, None] (with default
\* None), any other text names the type itself; List is typing.List, whose
\* origin is list
EvalAnnotation(text) ==
    IF \E b \in PyTypeNames : text = "Optional[" \o b \o "] = None"
        THEN [origin |-> "Union",
              args |-> <<CHOOSE b \in PyTypeNames : text = "Optional[" \o b \o "] = None",
                         "NoneType">>]
        ELSE [origin |-> IF text = "List" THEN "list" ELSE "none", args |-> <<text>>]

\* python_type_to_json_type(py_type)["type"]
PythonTypeToJsonType(py_type) ==
    LET non_none == SelectSeq(py_type.args, LAMBDA a : a # "NoneType")
        plain == IF py_type.origin = "Union" /\ non_none # <<>>
                     THEN [origin |-> IF non_none[1] = "List" THEN "list" ELSE "none",
                           args |-> <<non_none[1]>>]
                     ELSE py_type
        t == plain.args[1]
    IN  IF t = "str" THEN "string"
        ELSE IF t = "int" THEN "integer"
        ELSE IF t = "float" THEN "number"
        ELSE IF t = "bool" THEN "boolean"
        ELSE IF t = "list" \/ plain.origin = "list" THEN "array"
        ELSE IF t = "dict" \/ plain.origin = "dict" THEN "object"
        ELSE "string"

\* parameters dicts over the canonical types
TypedTables ==
    UNION {[names -> [type : CanonicalTypes, required : BOOLEAN]] :
              names \in {{"a"}, {"a", "b"}}}

InitAnnotations ==
    /\ SetStore(InitializeProject(<<"calc_1", "t2">>).fs)
    /\ requiredFiles = RequiredTopFiles
    /\ subject \in [kind : {"parameters"}, table : TypedTables]
    /\ last = InitializeProject(<<"calc_1", "t2">>).res

\* add_tool's annotations of a parameters dict, read back by generate_schema
DoAnnotateAndReadBack ==
    /\ subject.kind = "parameters"
    /\ last.op # "generate_schema"
    /\ last' = [Result("generate_schema", "", TRUE, "none") EXCEPT
                   !.value = [n \in DOMAIN subject.table |->
                                 PythonTypeToJsonType(
                                     EvalAnnotation(MapParams(subject.table)[n].type))]]
    /\ UNCHANGED <<toolFiles, toolsAgg, globOrder, viewDirs, viewsAgg, skillDirs,
                   skillsAgg, requiredFiles, subject>>

NextAnnotations == DoAnnotateAndReadBack

SpecAnnotations == InitAnnotations /\ [][NextAnnotations]_vars

-----------------------------------------------------------------------------
(* generate_schemas over tool files and views whose processing can fail *)

\* a function of a tool module as the loop over inspect.getmembers sees it:
\* its name, whether @tool marked it, and whether generate_schema(obj)
\* returns (get_type_hints raises on an annotation naming nothing)
Member(name, is_tool, hints_ok) ==
    [name |-> name, is_tool |-> is_tool, hints_ok |-> hints_ok, description |-> "d1"]

\* contents of tools/<stem>.py: whether executing the module raises, and its
\* functions in the order of inspect.getmembers (sorted by name)
ModulesOf(stem) ==
    {[raises |-> FALSE, functions |-> <<Member(stem, FALSE, TRUE)>>],
     [raises |-> TRUE,  functions |-> <<>>],
     [raises |-> FALSE, functions |-> <<Member(stem, TRUE, FALSE)>>],
     [raises |-> FALSE, functions |-> <<Member(stem, FALSE, TRUE), Member("zeta", TRUE, FALSE)>>],
     [raises |-> FALSE, functions |-> <<Member("helper", FALSE, TRUE)>>]}

\* "for name, obj in inspect.getmembers(module)": the schemas appended before
\* the loop ends, breaks or raises
RECURSIVE MemberLoop(_, _)
MemberLoop(stem, functions) ==
    IF functions = <<>> THEN [schemas |-> <<>>, failed |-> FALSE]
    ELSE LET obj == Head(functions)
         IN  IF obj.is_tool \/ obj.name = stem
                 THEN IF ~obj.hints_ok THEN [schemas |-> <<>>, failed |-> TRUE]
                      ELSE IF obj.is_tool
                          THEN [schemas |-> <<ToolSchema(obj.name, obj)>>, failed |-> FALSE]
                          ELSE LET rest == MemberLoop(stem, Tail(functions))
                               IN  [schemas |-> <<ToolSchema(obj.name, obj)>> \o rest.schemas,
                                    failed |-> rest.failed]
                 ELSE MemberLoop(stem, Tail(functions))

\* the try block of one tool file
ProcessToolFile(stem, module) ==
    IF module.raises THEN [schemas |-> <<>>, failed |-> TRUE]
    ELSE MemberLoop(stem, module.functions)

\* the loop over tools_dir.glob("*.py"): tool_schemas, the errors list (one
\* string per except, standing for the file it names) and the count
RECURSIVE ScanModules(_, _)
ScanModules(files, order) ==
    IF order = <<>> THEN [schemas |-> <<>>, errors |-> <<>>]
    ELSE LET rest == ScanModules(files, Tail(order))
         IN  IF Head(order) \in DOMAIN files
                 THEN LET one == ProcessToolFile(Head(order), files[Head(order)])
                      IN  [schemas |-> one.schemas \o rest.schemas,
                           errors  |-> (IF one.failed THEN <<Head(order)>> ELSE <<>>)
                                           \o rest.errors]
                 ELSE rest

\* view.tsx that read_text(encoding='utf-8') cannot decode
Undecodable(tsx) == [tsx EXCEPT !.description = "\\xff"]

IsDecodable(tsx) == tsx.description # "\\xff"

\* views whose try block raises
FailingViews(dirs) == {v \in DOMAIN dirs : ~IsDecodable(dirs[v].tsx)}

KindReport(count, errors) ==
    [count |-> count, errors |-> errors,
     status |-> IF errors # <<>> THEN "error" ELSE "success"]

SkippedReport == [count |-> 0, errors |-> <<>>, status |-> "skipped"]

\* generate_schemas(force) with the per-file and per-view try blocks
GenerateSchemasReport(fs, force) ==
    LET res == [Ok("generate_schemas", "") EXCEPT !.force = force]
        skipped == [tools |-> SkippedReport, views |-> SkippedReport]
    IN  IF SkipsAll(fs, force)
            THEN [fs |-> fs, res |-> [res EXCEPT !.tools_status = "skipped",
                                                 !.views_status = "skipped",
                                                 !.value = skipped]]
        ELSE LET doTools == RegenTools(fs, force)
                 doViews == RegenViews(fs, force)
                 scan == ScanModules(fs.toolFiles, fs.globOrder)
                 tool_schemas == InitialToolSchemas(fs) \o scan.schemas
                 good == DOMAIN fs.viewDirs \ FailingViews(fs.viewDirs)
                 tools == IF doTools THEN KindReport(Len(scan.schemas), scan.errors)
                          ELSE SkippedReport
                 views == IF doViews
                              THEN KindReport(Cardinality(good),
                                              SeqOfSet(FailingViews(fs.viewDirs)))
                              ELSE SkippedReport
                 fs1 == IF doTools THEN [fs EXCEPT !.toolsAgg = JsonList(tool_schemas)] ELSE fs
                 fs2 == IF doViews
                            THEN [fs1 EXCEPT
                                    !.viewDirs = [v \in DOMAIN fs.viewDirs |->
                                        IF v \in good
                                            THEN [tsx |-> fs.viewDirs[v].tsx,
                                                  schema |-> SchemaFromTsx(v, fs.viewDirs[v].tsx)]
                                            ELSE fs.viewDirs[v]],
                                    !.viewsAgg = JsonDict([v \in good |->
                                        AggregatedView(v, fs.viewDirs[v].tsx)])]
                            ELSE fs1
             IN  [fs  |-> fs2,
                  res |-> [res EXCEPT !.tools_status = tools.status,
                                      !.views_status = views.status,
                                      !.value = [tools |-> tools, views |-> views]]]

BulkTools == {"calc_1", "t2"}

BulkViews == {"welcome", "results"}

BulkViewDir(v, decodable) ==
    LET tsx == RenderView("d1", [n \in {"title"} |-> SimpleProp("string")])
    IN  [tsx |-> IF decodable THEN tsx ELSE Undecodable(tsx),
         schema |-> SchemaFromProps(v, "d1", [n \in {"title"} |-> SimpleProp("string")])]

\* projects whose tool files and views a developer has edited
InitBulk ==
    /\ \E names \in SUBSET BulkTools, views \in SUBSET BulkViews :
         \E files \in [names -> UNION {ModulesOf(t) : t \in BulkTools}],
            decodable \in [views -> BOOLEAN] :
              /\ \A t \in names : files[t] \in ModulesOf(t)
              /\ SetStore([EmptyStore(<<"t2", "calc_1">>) EXCEPT
                     !.toolFiles = files,
                     !.viewDirs = [v \in views |-> BulkViewDir(v, decodable[v])]])
    /\ requiredFiles = RequiredTopFiles
    /\ subject = NoSubject
    /\ last = Ok("initialize_project", "")

DoGenerateSchemasReport ==
    \E force \in BOOLEAN : Apply(GenerateSchemasReport(store, force))

NextBulk == DoGenerateSchemasReport \/ DoRemoveTool \/ DoRemoveView

SpecBulk == InitBulk /\ [][NextBulk]_vars

-----------------------------------------------------------------------------
(* list_tools, list_views, list_skills *)

\* the dicts list_tools and list_views return: the sorted names and len()
Listing(op, ids) == [Ok(op, "") EXCEPT !.value = [ids |-> ids, count |-> Len(ids)]]

\* list_skills: the entries of skills/schemas.json when it parses
\* (schemas.items() raises on a value that is not a dict; JSONDecodeError
\* is passed over), and the folders holding a SKILL.md when that gave no
\* entry.  views maps each listed id to the "output_view" reported for it
ListSkills(fs) ==
    LET doc == fs.skillsAgg
        fromAggregate == IF doc.shape = "dict" THEN DOMAIN doc.entries ELSE {}
        ids == IF fromAggregate # {} THEN fromAggregate ELSE DOMAIN fs.skillDirs
        listed == SortedIds(ids, NameOrder)
    IN  IF doc.shape \notin {"missing", "invalid", "dict"}
            THEN Fail("list_skills", "", "raised")
            ELSE [Ok("list_skills", "") EXCEPT
                    !.value = [ids |-> listed, count |-> Len(listed),
                               views |-> [id \in ids |->
                                   IF fromAggregate # {} THEN doc.entries[id].output.view
                                   ELSE "unknown"]]]

DoListTools == Apply([fs |-> store, res |-> Listing("list_tools", ListTools(store))])

DoListViews == Apply([fs |-> store, res |-> Listing("list_views", ListViews(store))])

DoListSkills == Apply([fs |-> store, res |-> ListSkills(store)])

\* the operations of the three kinds on a project whose aggregate documents
\* hold arbitrary JSON, with the listings
NextList ==
    \/ DoAddPlainTool \/ DoRemoveTool
    \/ DoAddPlainView \/ DoRemoveView \/ DoRemoveViewByPath
    \/ DoAddPlainSkill \/ DoUpdateSkillField \/ DoRemoveSkill
    \/ DoListTools \/ DoListViews \/ DoListSkills

SpecList == InitStore /\ [][NextList]_vars

-----------------------------------------------------------------------------
(* update_skill with texts the skill file cannot hold *)

DoUpdateSkillText ==
    \E id \in SkillNames, d \in {DescText[2], Unencodable} :
        Apply(UpdateSkill(store, id, [NoOverride EXCEPT !.description = {d}]))

NextUpdate ==
    \/ DoAddPlainSkill \/ DoUpdateSkillText \/ DoUpdateSkillField \/ DoRemoveSkill
    \/ DoAddPlainView \/ DoRemoveView

SpecUpdate == InitNoTools /\ [][NextUpdate]_vars

-----------------------------------------------------------------------------
(* deploy *)

\* mutant: only the status of the tools is looked at
DeployGenerated_ToolsOnly(tools_status, views_status) == tools_status # "error"

\* the negation of 'gen_result["tools"]["status"] == "error" or
\* gen_result["views"]["status"] == "error"'
DeployGenerated(tools_status, views_status) ==
    tools_status # "error" /\ views_status # "error"

\* deploy: validate(strict=True), whose failure is returned as it is, then
\* generate_schemas(force=True)
Deploy(fs, present, content) ==
    LET val == Validate(fs, present, TRUE, content)
        gen == GenerateSchemasReport(fs, TRUE)
        res == [Result("deploy", "", TRUE, "none") EXCEPT
                   !.strict = TRUE, !.force = TRUE,
                   !.tools_status = gen.res.tools_status,
                   !.views_status = gen.res.views_status]
    IN  IF ~val.res.success
            THEN [fs |-> fs, res |-> [val.res EXCEPT !.op = "deploy"]]
        ELSE IF ~DeployGenerated(gen.res.tools_status, gen.res.views_status)
            THEN [fs  |-> gen.fs,
                  res |-> [res EXCEPT !.success = FALSE,
                                      !.error = "schema_generation_failed",
                                      !.value = gen.res.value]]
        ELSE [fs  |-> gen.fs,
              res |-> [res EXCEPT !.value = [validation |-> val.res,
                                             schema_generation |-> gen.res.value]]]

\* an initialized project whose tools/schemas.json, tools/calc_1.py, welcome
\* view and required files a developer has edited or deleted
InitDeploy ==
    LET fs == InitializeProject(<<"calc_1", "t2">>).fs
    IN  /\ \E doc \in {Missing, JsonDict(<<>>), fs.toolsAgg},
              names \in SUBSET {"calc_1"}, decodable \in BOOLEAN,
              gone \in {g \in SUBSET RequiredTopFiles : Cardinality(g) <= MaxMissing} :
             \E files \in [names -> ModulesOf("calc_1")] :
               /\ SetStore([fs EXCEPT
                      !.toolsAgg = doc,
                      !.toolFiles = files,
                      !.viewDirs = [@ EXCEPT !["welcome"] =
                          [@ EXCEPT !.tsx = IF decodable THEN @ ELSE Undecodable(@)]]])
               /\ requiredFiles = RequiredTopFiles \ gone
        /\ subject = NoSubject
        /\ last = InitializeProject(<<"calc_1", "t2">>).res

DoDeploy ==
    \E content \in FileContents : Apply(Deploy(store, requiredFiles, content))

NextDeploy == DoDeploy \/ DoRemoveTool \/ DoRemoveView

SpecDeploy == InitDeploy /\ [][NextDeploy]_vars

-----------------------------------------------------------------------------
(* Properties *)

files == <<toolFiles, viewDirs, skillDirs>>

aggregates == <<toolsAgg, viewsAgg, skillsAgg>>

\* the aggregate holds an entry for id: a key of the map, or an element of
\* the list that carries the name
HasEntry(doc, id) ==
    \/ doc.shape = "dict" /\ id \in DOMAIN doc.entries
    \/ doc.shape = "list" /\ \E i \in 1..Len(doc.items) : doc.items[i].function.name = id

EntryCount(doc) ==
    IF doc.shape = "dict" THEN Cardinality(DOMAIN doc.entries) ELSE Len(doc.items)

\* C1: after a successful add_tool(id) or add_view(id) the aggregate of the
\* kind contains an entry for id
C1_AddMergesIntoAggregate ==
    /\ (last.op = "add_tool" /\ last.success) => HasEntry(toolsAgg, last.id)
    /\ (last.op = "add_view" /\ last.success) => HasEntry(viewsAgg, last.id)

\* C2: whenever generate_schemas writes tools/schemas.json, the document is
\* a map keyed by tool name whose entries have a 'function' key, and the
\* validator's shape check reports no error for it
C2_GeneratedToolsAggregateIsKeyedMap ==
    (last.op = "generate_schemas" /\ last.tools_status \in {"success", "error"}) =>
        /\ toolsAgg.shape = "dict"
        /\ \A k \in DOMAIN toolsAgg.entries : "function" \in DOMAIN toolsAgg.entries[k]
        /\ ToolsSchemaFormatErrors(toolsAgg) = {}

\* C3: on a project with no tools, add_tool("calc_1") makes list_tools
\* return exactly "calc_1"; a second add_tool("calc_1") fails, changes
\* neither the tool file nor the tools aggregate, and the aggregate then
\* holds exactly one entry
C3_ScenarioD ==
    [][ /\ (DOMAIN toolFiles = {} /\ last'.op = "add_tool" /\ last'.id = "calc_1"
               /\ last'.success)
            => ListTools(store)' = <<"calc_1">>
        /\ (DOMAIN toolFiles = {"calc_1"} /\ last.op = "add_tool" /\ last.id = "calc_1"
               /\ last.success /\ last'.op = "add_tool" /\ last'.id = "calc_1")
            => /\ ~last'.success
               /\ UNCHANGED <<toolFiles, toolsAgg>>
               /\ EntryCount(toolsAgg') = 1 ]_vars

\* C4: in every reachable state the sentinel view 'welcome' (folder with
\* view.tsx) and the sentinel skill 'show_welcome' (folder and aggregate
\* entry) exist
C4_SentinelsExist ==
    /\ "welcome" \in DOMAIN viewDirs
    /\ "show_welcome" \in DOMAIN skillDirs
    /\ HasEntry(skillsAgg, "show_welcome")

\* C5: remove_view("welcome") and remove_skill("show_welcome") return
\* success=false and change no file and no aggregate document
C5_SentinelRemoveIsRejected ==
    [][ (\/ last'.op = "remove_view" /\ last'.id = "welcome"
         \/ last'.op = "remove_skill" /\ last'.id = "show_welcome")
        => (~last'.success /\ UNCHANGED <<files, aggregates>>) ]_vars

C5_Witness ==
    /\ last.op = "remove_view" /\ last.id = "welcome" /\ last.error = "sentinel"
    /\ "welcome" \in DOMAIN viewDirs /\ HasEntry(viewsAgg, "welcome")

\* C6: after a successful remove(id) of any kind the artifact's files are
\* gone, the aggregate of the kind has no entry for id, and its other
\* entries are unchanged
C6_RemoveDropsEntry ==
    [][ /\ (last'.op = "remove_tool" /\ last'.success) =>
              /\ last'.id \notin DOMAIN toolFiles'
              /\ ~HasEntry(toolsAgg', last'.id)
              /\ toolsAgg'.items =
                    SelectSeq(toolsAgg.items, LAMBDA e : e.function.name # last'.id)
        /\ (last'.op = "remove_view" /\ last'.success) =>
              /\ PathName(last'.id) \notin DOMAIN viewDirs'
              /\ ~HasEntry(viewsAgg', last'.id)
              /\ viewsAgg'.entries = DelKey(viewsAgg.entries, last'.id)
        /\ (last'.op = "remove_skill" /\ last'.success) =>
              /\ PathName(last'.id) \notin DOMAIN skillDirs'
              /\ ~HasEntry(skillsAgg', last'.id)
              /\ skillsAgg'.entries = DelKey(skillsAgg.entries, last'.id) ]_vars

RemoveOps == {"remove_tool", "remove_view", "remove_skill"}

\* C7: a remove of an existing id that is not a sentinel deletes the
\* artifact's files and returns success=true whatever the aggregate holds
C7_RemoveToleratesAnyAggregate ==
    (last.op \in RemoveOps /\ last.error \notin {"not_found", "sentinel"}) =>
        /\ last.success
        /\ last.op = "remove_tool"  => last.id \notin DOMAIN toolFiles
        /\ last.op = "remove_view"  => PathName(last.id) \notin DOMAIN viewDirs
        /\ last.op = "remove_skill" => PathName(last.id) \notin DOMAIN skillDirs

\* C8: generate_schemas(force=False) reports "skipped" for a kind whose
\* aggregate exists and leaves that aggregate unchanged, whether or not the
\* aggregate of the other kind exists
C8_ExistingAggregateIsSkipped ==
    [][ (last'.op = "generate_schemas" /\ ~last'.force) =>
          /\ Exists(toolsAgg) => (last'.tools_status = "skipped" /\ toolsAgg' = toolsAgg)
          /\ Exists(viewsAgg) => (last'.views_status = "skipped" /\ viewsAgg' = viewsAgg)
      ]_vars

\* tools skipped while the missing views aggregate is generated
C8_Witness ==
    /\ last.op = "generate_schemas" /\ ~last.force
    /\ last.tools_status = "skipped" /\ last.views_status = "success"
    /\ Exists(toolsAgg)

ViewSchemas == [v \in DOMAIN viewDirs |-> viewDirs[v].schema]

\* C9: a generate_schemas(force=True) that directly follows another one
\* leaves the tools aggregate, the views aggregate and every view.schema.json
\* as the first call wrote them
C9_ForcedRegenerateIsIdempotent ==
    [][ (last'.op = "generate_schemas" /\ last'.repeat) =>
          /\ toolsAgg' = toolsAgg
          /\ viewsAgg' = viewsAgg
          /\ ViewSchemas' = ViewSchemas ]_vars

C9_Witness ==
    /\ last.op = "generate_schemas" /\ last.repeat
    /\ Len(toolsAgg.items) = 2
    /\ DOMAIN viewsAgg.entries # {}

\* C10: an update that supplies some but not all fields succeeds for an
\* existing id and keeps every field that was not supplied: update_tool with
\* only a description keeps the parameters, update_view with only a
\* description keeps each prop's type, description and required flag,
\* update_skill keeps every field that is not supplied
C10_PartialUpdateKeepsFields ==
    [][ /\ \A id \in ToolNames, d \in Descs :
              (id \in DOMAIN toolFiles /\ Apply(UpdateTool(store, id, {d}, {}))) =>
                  /\ last'.success
                  /\ toolFiles'[id].parameters = toolFiles[id].parameters
        /\ \A id \in ViewNames, d \in Descs :
              (id \in DOMAIN viewDirs /\ Apply(UpdateView(store, id, {d}, {}))) =>
                  /\ last'.success
                  /\ viewDirs'[id].schema.props = viewDirs[id].schema.props
        /\ \A id \in SkillNames, ov \in SkillOverrides \ {NoOverride} :
              (HasEntry(skillsAgg, id) /\ Apply(UpdateSkill(store, id, ov))) =>
                  /\ last'.success
                  /\ \A f \in {x \in SkillFields \ {"output_view"} : ov[x] = {}} :
                        skillsAgg'.entries[id][f] = skillsAgg.entries[id][f]
                  /\ ov["output_view"] = {} =>
                        skillsAgg'.entries[id].output = skillsAgg.entries[id].output
      ]_vars

AddOps == {"add_tool", "add_view", "add_skill"}

\* the id holds a character that is neither alphanumeric nor an underscore
HasForeignChar(id) ==
    \E i \in 1..Len(IdChars[id]) : IdChars[id][i] \notin AlnumChars \cup {"_"}

\* the id names nothing of the kind the operation works on: no tool file,
\* no view folder, no skill folder and no skill entry
NamesNothing(op, id) ==
    CASE op \in {"update_tool", "remove_tool"} -> id \notin DOMAIN toolFiles
      [] op \in {"update_view", "remove_view"} -> PathName(id) \notin DOMAIN viewDirs
      [] op \in {"update_skill", "remove_skill"} ->
            PathName(id) \notin DOMAIN skillDirs /\ ~HasEntry(skillsAgg, id)
      [] OTHER -> FALSE

C12_UnparseableSkillsAggregateBlocks ==
    [][ (skillsAgg.shape = "invalid" /\ last'.op \in {"add_skill", "update_skill"})
        => (~last'.success /\ skillsAgg' = skillsAgg) ]_vars

\* the findings the validator classifies as advisory
WarningKinds ==
    {"missing_skill_md", "render_view", "missing_tool", "duplicate_trigger",
     "orphan_folder", "language_policy"}

\* one of the four required files does not exist
RequiredFileMissing ==
    requiredFiles # RequiredTopFiles \/ "welcome" \notin DOMAIN viewDirs

\* C13: validate returns success=false exactly when a required file is
\* missing or its error list is not empty; the error list holds no advisory
\* finding and the warning list holds nothing else, so a run with warnings
\* and no errors returns success=true
C13_SuccessIffNoErrors ==
    last.op = "validate" =>
        /\ ~last.success <=> (RequiredFileMissing \/ last.details # <<>>)
        /\ \A i \in DOMAIN last.details : last.details[i].kind \notin WarningKinds
        /\ \A i \in DOMAIN last.warnings : last.warnings[i].kind \in WarningKinds

\* a strict run with warnings and no errors
C13_Witness ==
    /\ last.op = "validate" /\ last.strict /\ last.success
    /\ last.warnings # <<>> /\ last.details = <<>>

\* the required files that do not exist
MissingRequired ==
    (RequiredTopFiles \ requiredFiles)
        \cup (IF "welcome" \in DOMAIN viewDirs THEN {} ELSE {"views/welcome/view.tsx"})

\* C14: when a required file is missing validate returns success=false and
\* names exactly the missing files, with no finding of a strict check in the
\* result, for strict=True and strict=False alike; with strict=False and all
\* required files present no strict check runs and the result is success=true
C14_RequiredFilesShortCircuit ==
    last.op = "validate" =>
        /\ MissingRequired # {} =>
              /\ ~last.success
              /\ {last.missing[i] : i \in DOMAIN last.missing} = MissingRequired
              /\ last.details = <<>> /\ last.warnings = <<>>
        /\ (MissingRequired = {} /\ ~last.strict) =>
              /\ last.success
              /\ last.details = <<>> /\ last.warnings = <<>>

\* a strict run on a project that lacks a required file and whose tools
\* aggregate a strict check would reject
C14_Witness ==
    /\ last.op = "validate" /\ last.strict /\ last.error = "missing_required"
    /\ "metadata.json" \in MissingRequired
    /\ toolsAgg.shape = "list"

\* the skills of the aggregate whose output.view names no existing view
DanglingViewSkills ==
    {sk \in DOMAIN skillsAgg.entries :
        /\ skillsAgg.entries[sk].output.view # "NONE"
        /\ skillsAgg.entries[sk].output.view \notin DOMAIN viewDirs}

\* C15: validate(strict=True) on a project with its required files, whose
\* skills aggregate holds a skill with output.view = v, v not "NONE" and no
\* view v existing, returns success=false with an error that names v and
\* the skill
C15_MissingViewIsError ==
    (last.op = "validate" /\ last.strict /\ MissingRequired = {}) =>
        \A sk \in DanglingViewSkills :
            /\ ~last.success
            /\ \E i \in DOMAIN last.details :
                  /\ last.details[i].who = <<sk>>
                  /\ last.details[i].what = skillsAgg.entries[sk].output.view

\* t is a tool of the tools aggregate
IsAggregatedTool(t) == Exists(toolsAgg) /\ HasEntry(toolsAgg, t)

\* the (skill, tool) pairs of the dangling-tool warnings of the last result
DanglingToolWarnings ==
    {<<last.warnings[i].who[1], last.warnings[i].what>> :
        i \in {j \in DOMAIN last.warnings : last.warnings[j].kind = "missing_tool"}}

\* C16: validate(strict=True) warns about skill s and tool t exactly when t
\* is listed in s.internal_tools and is not a tool of the tools aggregate,
\* and a missing tool is never an error
C16_DanglingToolWarning ==
    (last.op = "validate" /\ last.strict /\ MissingRequired = {}) =>
        /\ DanglingToolWarnings =
              {p \in (DOMAIN skillsAgg.entries) \X ToolNames :
                  /\ \E i \in DOMAIN skillsAgg.entries[p[1]].internal_tools :
                        skillsAgg.entries[p[1]].internal_tools[i] = p[2]
                  /\ ~IsAggregatedTool(p[2])}
        /\ \A i \in DOMAIN last.details : last.details[i].kind # "missing_tool"

\* the skill ids that claim the normalized trigger t
Claimants(t) ==
    {sk \in DOMAIN skillsAgg.entries :
        \E i \in DOMAIN skillsAgg.entries[sk].intent_triggers :
            NormalizedTrigger(skillsAgg.entries[sk].intent_triggers[i]) = t}

\* the duplicate-trigger warnings of the last result
DuplicateWarnings ==
    SelectSeq(last.warnings, LAMBDA w : w.kind = "duplicate_trigger")

\* C17: validate(strict=True) gives one duplicate-trigger warning for each
\* normalized trigger that more than one skill id claims, naming exactly the
\* claiming ids, gives none for any other trigger, and reports no error for
\* a duplicate
C17_DuplicateTriggerWarning ==
    (last.op = "validate" /\ last.strict /\ MissingRequired = {}) =>
        /\ \A t \in TriggerTexts :
              Cardinality({i \in DOMAIN DuplicateWarnings : DuplicateWarnings[i].what = t})
                  = IF Cardinality(Claimants(t)) > 1 THEN 1 ELSE 0
        /\ \A i \in DOMAIN DuplicateWarnings :
              /\ {DuplicateWarnings[i].who[k] : k \in DOMAIN DuplicateWarnings[i].who}
                    = Claimants(DuplicateWarnings[i].what)
              /\ Len(DuplicateWarnings[i].who) = Cardinality(Claimants(DuplicateWarnings[i].what))
        /\ \A i \in DOMAIN last.details : last.details[i].kind # "duplicate_trigger"

\* C19: validate(strict=True) reports, for every skill of the aggregate
\* whose intent_triggers list is empty, an error that names the skill and is
\* not the one about its view, so the result is success=false
C19_EmptyTriggersRejected ==
    (last.op = "validate" /\ last.strict /\ MissingRequired = {}) =>
        \A sk \in {x \in DOMAIN skillsAgg.entries :
                      skillsAgg.entries[x].intent_triggers = <<>>} :
            /\ ~last.success
            /\ \E i \in DOMAIN last.details :
                  /\ last.details[i].who = <<sk>>
                  /\ last.details[i].kind # "missing_view"

\* C18: for a public function of a tool file that is not a support file the
\* validator reports a calling-convention error exactly when the parameter
\* list is not the single parameter 'params', whatever the number of
\* parameters
C18_CallingConvention ==
    (/\ last.op = "check_signature"
     /\ subject.file.inTools /\ subject.file.name \notin {"db.py", "models.py", "seed_data.py"}
     /\ ~IsPrivate(subject.name))
        => (last.details # <<>> <=> subject.args # <<"params">>)

\* the parameter an entry line documents: the first word after the dash
DocumentedName(line) == IF line[1] = "-" THEN line[2] ELSE line[1]

\* the words of the entry after the colon, the marker left out
DocumentedText(line) ==
    LET colon == CHOOSE i \in DOMAIN line : line[i] = ":"
    IN  SelectSeq(SubSeq(line, colon + 1, Len(line)), LAMBDA w : w \notin Markers)

\* C20: for a bundled-convention function generate_schema lists every
\* parameter the Args section documents, marks it required exactly when its
\* entry carries no "(optional)" marker in any letter case and at any place
\* of the entry, and stores the description without the marker (stated for
\* the parameters that have one entry)
C20_OptionalMarker ==
    (last.op = "generate_schema" /\ subject.kind = "docstring") =>
        \A k \in DOMAIN subject.lines :
            LET line == subject.lines[k]
                n == DocumentedName(line)
                props == last.value.properties
            IN  (\A j \in DOMAIN subject.lines \ {k} : DocumentedName(subject.lines[j]) # n)
                =>  /\ \E i \in DOMAIN props :
                          /\ props[i].name = n
                          /\ props[i].description = DocumentedText(line)
                    /\ (\E i \in DOMAIN last.value.required : last.value.required[i] = n)
                          <=> (\A i \in DOMAIN line : line[i] \notin Markers)

\* C21: a property documented in the Returns section gets the type a
\* bundled parameter with the same description gets, and without a Returns
\* section the returns properties are {status: string, message: string}
C21_ReturnsMirrorArgs ==
    (last.op = "generate_schema" /\ subject.kind = "described") =>
        /\ (subject.hasReturns /\ subject.desc # <<>>) =>
              /\ Len(last.value.returns) = 1
              /\ last.value.returns[1].type = last.value.paramType
        /\ ~subject.hasReturns =>
              [i \in DOMAIN last.value.returns |->
                  <<last.value.returns[i].name, last.value.returns[i].type>>]
              = <<(<<"status", "string">>), (<<"message", "string">>)>>

\* C22: for a function of the direct convention the required list is a
\* subset of the property names, and a parameter is in the required list
\* exactly when it has no default value, annotated or not
C22_RequiredMatchesSource ==
    (last.op = "generate_schema" /\ subject.kind = "signature") =>
        LET required == {last.value.required[i] : i \in DOMAIN last.value.required}
            properties == {last.value.properties[i] : i \in DOMAIN last.value.properties}
        IN  /\ required \subseteq properties
            /\ \A i \in DOMAIN subject.sig :
                  subject.sig[i].name \in required <=> ~subject.sig[i].hasDefault

\* C23: in every tool file add_tool or update_tool has rendered, no
\* optional parameter stands before a required one
C23_RequiredParametersFirst ==
    \A t \in DOMAIN toolFiles :
        \A i, j \in DOMAIN toolFiles[t].parameters :
            (i < j /\ toolFiles[t].parameters[j].is_required)
                => toolFiles[t].parameters[i].is_required

\* update_tool has rendered a file whose required parameter comes after the
\* optional one in name order
C23_Witness ==
    /\ last.op = "update_tool" /\ last.success
    /\ Len(toolFiles[last.id].parameters) = 2
    /\ toolFiles[last.id].parameters[1].name = "b"
    /\ toolFiles[last.id].parameters[1].is_required
    /\ ~toolFiles[last.id].parameters[2].is_required

\* C24: for each canonical type and each required flag, the annotation
\* add_tool writes maps back to the same canonical type
C24_AnnotationRoundTrip ==
    (last.op = "generate_schema" /\ subject.kind = "parameters") =>
        \A n \in DOMAIN subject.table : last.value[n] = subject.table[n].type

\* an optional array and a required integer have been mapped and read back
C24_Witness ==
    /\ last.op = "generate_schema" /\ subject.kind = "parameters"
    /\ DOMAIN subject.table = {"a", "b"}
    /\ subject.table["a"] = [type |-> "array", required |-> FALSE]
    /\ subject.table["b"] = [type |-> "integer", required |-> TRUE]
    /\ last.value["a"] = "array"

\* the names of the entries a tool file can contribute to the aggregate
FunctionNames(module) == {module.functions[i].name : i \in DOMAIN module.functions}

\* C25: after a bulk generate_schemas, no entry of a failed tool file or view
\* is in the aggregate, the failures are listed once each, the kind's status
\* is "error" exactly when something failed, and count is the number of
\* entries written
C25_FailedArtifactsOmitted ==
    (last.op = "generate_schemas" /\ last.tools_status \in {"success", "error"}
        /\ last.views_status \in {"success", "error"}) =>
        /\ \A i \in DOMAIN last.value.tools.errors :
               \A j \in DOMAIN toolsAgg.items :
                   toolsAgg.items[j].function.name
                       \notin FunctionNames(toolFiles[last.value.tools.errors[i]])
        /\ \A v \in FailingViews(viewDirs) : ~HasEntry(viewsAgg, v)
        /\ last.value.tools.count = Len(toolsAgg.items)
        /\ last.value.views.count = Cardinality(DOMAIN viewsAgg.entries)
        /\ (last.tools_status = "error") = (last.value.tools.errors # <<>>)

\* C26: no operation lets an exception escape because an aggregate holds
\* parseable JSON of an unexpected shape: every call returns a result record
C26_NoRaiseOnUnexpectedShape == last.error # "raised"

ListOps == {"list_tools", "list_views", "list_skills"}

\* the aggregate document of the kind a list operation reports
AggregateOf(op) ==
    CASE op = "list_tools" -> toolsAgg
      [] op = "list_views" -> viewsAgg
      [] OTHER             -> skillsAgg

\* the names of the files or folders of that kind
FoldersOf(op) ==
    CASE op = "list_tools" -> DOMAIN toolFiles
      [] op = "list_views" -> DOMAIN viewDirs
      [] OTHER             -> DOMAIN skillDirs

AllNames == ToolNames \cup ViewNames \cup SkillNames

\* C27: a listing is sorted by id, its count is the number of entries, it
\* holds exactly the ids of the kind's aggregate when the aggregate exists
\* (and parses to a dict or a list) and the folder names when no aggregate
\* exists, and the listing changes no file
C27_ListingsFollowAggregate ==
    /\ []((last.op \in ListOps /\ last.success) =>
            /\ last.value.ids = SortedIds({last.value.ids[i] : i \in DOMAIN last.value.ids}, NameOrder)
            /\ last.value.count = Len(last.value.ids)
            /\ AggregateOf(last.op).shape \in {"dict", "list"} =>
                   {last.value.ids[i] : i \in DOMAIN last.value.ids} =
                       {id \in AllNames : HasEntry(AggregateOf(last.op), id)}
            /\ ~Exists(AggregateOf(last.op)) =>
                   {last.value.ids[i] : i \in DOMAIN last.value.ids} = FoldersOf(last.op))
    /\ [][last'.op \in ListOps =>
            UNCHANGED <<toolFiles, toolsAgg, viewDirs, viewsAgg, skillDirs, skillsAgg>>]_vars

\* C28: an update_skill that returns success=false leaves the skill's folder
\* and its aggregate entry as they were
C28_UpdateSkillAllOrNothing ==
    [][(last'.op = "update_skill" /\ ~last'.success)
          => UNCHANGED <<skillDirs, skillsAgg>>]_vars

\* C29: in every state the view and skill operations reach from
\* initialize_project, every skill of the aggregate has output.view "NONE"
\* or the name of an existing view folder
C29_SkillViewsExist ==
    skillsAgg.shape = "dict" =>
        \A s \in DOMAIN skillsAgg.entries :
            \/ skillsAgg.entries[s].output.view = "NONE"
            \/ skillsAgg.entries[s].output.view \in DOMAIN viewDirs

\* C30: a deploy whose validation fails returns the validation result and
\* rewrites no aggregate; a deploy returns success=true only when the
\* validation succeeded and neither regeneration status is "error"
C30_DeployValidatesFirst ==
    [][last'.op = "deploy" =>
          \E content \in FileContents :
              LET val == Validate(store, requiredFiles, TRUE, content).res
              IN  /\ ~val.success =>
                        /\ last' = [val EXCEPT !.op = "deploy"]
                        /\ UNCHANGED <<toolsAgg, viewsAgg, skillsAgg, viewDirs>>
                  /\ last'.success =>
                        /\ val.success
                        /\ last'.tools_status # "error"
                        /\ last'.views_status # "error"]_vars

\* validation succeeded, the regeneration of the views failed, and deploy
\* returned success=false
C30_Witness ==
    /\ last.op = "deploy" /\ ~last.success
    /\ last.error = "schema_generation_failed"
    /\ last.views_status = "error"
    /\ viewsAgg = JsonDict(<<>>)

====
